---- MODULE Spec2Model ----
(***************************************************************************)
(* The channel-polling scheduler of backtest_server (scheduler.py with the *)
(* parts of youtube_utils.py it calls) as a state machine.                 *)
(*                                                                         *)
(* State: the record store (the Tracked Source rows and the Processed      *)
(* Records), the coroutines in flight (hourly ticks, simulations, direct   *)
(* calls of process_channel, each with its position), the module-level     *)
(* scheduler handle with the scheduler instances made so far, and a probe  *)
(* that holds the argument and the result of a pure function.              *)
(*                                                                         *)
(* A coroutine runs atomically between two awaits, so every action below   *)
(* is one stretch of code that ends at an await or at a return.            *)
(***************************************************************************)
EXTENDS Integers, Sequences, FiniteSets, TLC

VARIABLES
    sources,    \* the reference DB: the list of Tracked Source pages, in list order
    records,    \* the script DB: the Processed Records, in creation order
    tasks,      \* the coroutines in flight, by slot
    scheduler,  \* scheduler.py:22, the global handle: 0 is None, i > 0 is scheds[i]
    scheds,     \* every AsyncIOScheduler made so far
    probe       \* the argument and the result of the pure function applied last

vars == <<sources, records, tasks, scheduler, scheds, probe>>

(***************************************************************************)
(* Bounds of the model.                                                    *)
(***************************************************************************)
\* setup_scheduler is called at most this many times.
MaxSetups == 2

(***************************************************************************)
(* Values.                                                                 *)
(***************************************************************************)
Hours == 0 .. 23
Weekdays == 0 .. 6
Minutes == {0, 30}

\* A page property that is absent (or null) is the empty sequence, one that is
\* present is a one-element sequence.
Absent == << >>

\* A URL is the sequence of its parts, so that "marker in url" is a search.
ChannelMarker == "youtube.com/@"
UrlChannel == <<"https://www.", ChannelMarker, "chan">>
UrlOther == <<"https://example.com/", "feed">>
UrlMissing == << >>

\* A transcript is the sequence of its words; the sentinel prefix is its first word.
SentinelPrefix == "script unavailable"
Transcripts == { << >>, <<SentinelPrefix, ": no captions">>, <<"hello", "world">> }

Videos == {"v1", "v2"}
NoVideo == [video_id |-> "none", url |-> "none", title |-> "none",
            is_live |-> FALSE, is_upcoming |-> FALSE, video_length |-> "none"]

\* youtube_utils.py:147, 174-182: the candidate dictionary of a video item.
Candidate(v, live, upcoming) ==
    [video_id |-> v, url |-> "https://www.youtube.com/watch?v=" \o v,
     title |-> "X review " \o v, is_live |-> live, is_upcoming |-> upcoming,
     video_length |-> "10:00"]

(***************************************************************************)
(* The Tracked Source pages.                                               *)
(***************************************************************************)
\* The reference DB holds this many pages.
NumSources == 5

\* scheduler.py:214-216 and 326: the upload time of a page without the number.
DefaultUploadTime == 9
DefaultChannelName == "etc"

Titles == { <<"X">>, Absent }
Urls == { UrlChannel, UrlOther, UrlMissing }
Checkboxes == { <<TRUE>>, <<FALSE>>, Absent }

Page(i, checkbox, title, url, number) ==
    [id |-> i, checkbox |-> checkbox, title |-> title, url |-> url,
     select |-> IF i = 4 THEN Absent ELSE <<"channel " \o ToString(i)>>,
     number |-> number]

\* The pages of the reference DB, by place in the list: two pages with afternoon
\* windows that overlap, a late one, one without the number (and without the
\* display name), a morning one whose URL is no channel URL, then afternoon and
\* late pages without a keyword. All follow the same channel with the same keyword.
TablePage(i, checkbox) ==
    CASE i = 1 -> Page(i, checkbox, <<"X">>, UrlChannel, <<14>>)
      [] i = 2 -> Page(i, checkbox, <<"X">>, UrlChannel, <<15>>)
      [] i = 3 -> Page(i, checkbox, <<"X">>, UrlChannel, <<21>>)
      [] i = 4 -> Page(i, checkbox, <<"X">>, UrlChannel, Absent)
      [] i = 5 -> Page(i, checkbox, <<"X">>, UrlOther, <<9>>)
      [] OTHER -> Page(i, checkbox, Absent, UrlChannel, <<12 + (i % 12)>>)

\* is_active that takes every page for an active one.
is_active_ignored(page) == TRUE

\* scheduler.py:31-35, 199-203, 316-320: the active flag read from a page.
is_active(page) ==
    IF page.checkbox # Absent THEN page.checkbox[1] ELSE FALSE

\* scheduler.py:42-46: the keyword read from a page.
keyword_of(page) ==
    IF page.title # Absent THEN page.title[1] ELSE ""

\* scheduler.py:54-58: the display name read from a page.
channel_name_of(page) ==
    IF page.select # Absent THEN page.select[1] ELSE DefaultChannelName

\* upload_time_of with noon for a page without the number.
upload_time_of_noon(page) ==
    IF page.number # Absent THEN page.number[1] ELSE 12

\* scheduler.py:208-216, 325-329: the upload time read from a page.
upload_time_of(page) ==
    IF page.number # Absent THEN page.number[1] ELSE DefaultUploadTime

\* scheduler.py:65: "youtube.com/@" in channel_url
is_channel_url(url) ==
    \E k \in 1 .. Len(url) : url[k] = ChannelMarker

\* extraction_times with a late window that ends at midnight.
extraction_times_until_midnight(upload_time) ==
    IF upload_time < 12 THEN <<9, 10, 11>>
    ELSE IF upload_time < 20
         THEN <<upload_time + 2, upload_time + 3, upload_time + 4>>
         ELSE <<22, 23>>

(***************************************************************************)
(* The dispatch window, as the hourly tick and as the simulation compute   *)
(* it.                                                                     *)
(***************************************************************************)
\* scheduler.py:340-348 (simulate_scheduler_at_time): extraction_times
extraction_times(upload_time) ==
    IF upload_time < 12 THEN <<9, 10, 11>>
    ELSE IF upload_time < 20
         THEN <<upload_time + 2, upload_time + 3, upload_time + 4>>
         ELSE <<22, 23, 0, 1, 2, 3>>

\* should_process that holds at the first trigger hour of a window alone.
should_process_once(upload_time, target_hour) ==
    IF upload_time < 12 THEN target_hour = 9
    ELSE IF upload_time < 20 THEN target_hour = upload_time + 2
         ELSE target_hour = 22

\* should_process with the afternoon window starting one hour early.
should_process_early(upload_time, target_hour) ==
    IF upload_time < 12 THEN target_hour \in {9, 10, 11}
    ELSE IF upload_time < 20
         THEN target_hour \in {upload_time + 1, upload_time + 2, upload_time + 3}
         ELSE target_hour \in {22, 23, 0, 1, 2, 3}

\* should_process with a late window that runs on through 04:00.
should_process_through_four(upload_time, target_hour) ==
    IF upload_time < 12 THEN target_hour \in {9, 10, 11}
    ELSE IF upload_time < 20
         THEN target_hour \in {upload_time + 2, upload_time + 3, upload_time + 4}
         ELSE target_hour \in {22, 23, 0, 1, 2, 3, 4}

\* scheduler.py:218-229 (process_channels_by_time): should_process
should_process(upload_time, target_hour) ==
    IF upload_time < 12 THEN target_hour \in {9, 10, 11}
    ELSE IF upload_time < 20
         THEN target_hour \in {upload_time + 2, upload_time + 3, upload_time + 4}
         ELSE target_hour \in {22, 23, 0, 1, 2, 3}

\* The weekend test that lets Saturday through.
is_weekend_sunday_only(weekday) == weekday > 5

\* scheduler.py:183 and 292: the weekend test
is_weekend(weekday) == weekday >= 5

\* channels_to_process without the test of the active flag.
channels_to_process_any(reference_pages, target_hour) ==
    SelectSeq(reference_pages,
              LAMBDA page : should_process(upload_time_of(page), target_hour))

\* scheduler.py:194-232: channels_to_process, the due pages in list order
channels_to_process(reference_pages, target_hour) ==
    SelectSeq(reference_pages,
              LAMBDA page : /\ is_active(page)
                            /\ should_process(upload_time_of(page), target_hour))

\* scheduler.py:313-358: the pages the simulation lists as extraction tasks
simulated_tasks(reference_pages, hour) ==
    SelectSeq(reference_pages,
              LAMBDA page :
                  /\ is_active(page)
                  /\ \E k \in 1 .. Len(extraction_times(upload_time_of(page))) :
                         extraction_times(upload_time_of(page))[k] = hour)

(***************************************************************************)
(* The record store (notion_utils, whose code is not in the repository's   *)
(* files: modelled from the store contract of the specification, section   *)
(* 6).                                                                     *)
(***************************************************************************)
\* Exists(dedupKey: url) -> bool
check_script_exists(recs, url) ==
    \E k \in 1 .. Len(recs) : recs[k].url = url

\* UpdateFields(entryId, {active: value}): the page list after the write
update_notion_page(pages, page_id, value) ==
    [k \in 1 .. Len(pages) |->
        IF pages[k].id = page_id
        THEN [pages[k] EXCEPT !.checkbox = <<value>>]
        ELSE pages[k]]

\* CreateRecord(collectionId, fields, bodyText): the record list after the write
create_script_report_page(recs, properties, script) ==
    Append(recs, [title |-> properties.title, url |-> properties.url,
                  name |-> properties.name, length |-> properties.length,
                  status |-> properties.status, body |-> script])

\* A reset that leaves the first page of the table out.
reset_all_channels_but_first(pages) ==
    [k \in 1 .. Len(pages) |->
        IF k = 1 THEN pages[k] ELSE [pages[k] EXCEPT !.checkbox = <<TRUE>>]]

\* The daily reset's store call, when it succeeds: every page active.
reset_all_channels(pages) ==
    [k \in 1 .. Len(pages) |-> [pages[k] EXCEPT !.checkbox = <<TRUE>>]]

\* The daily reset's store call, when it fails: the pages in done are written.
reset_some_channels(pages, done) ==
    [k \in 1 .. Len(pages) |->
        IF k \in done THEN [pages[k] EXCEPT !.checkbox = <<TRUE>>] ELSE pages[k]]

\* How many records have this URL.
CountUrl(recs, url) ==
    Cardinality({k \in 1 .. Len(recs) : recs[k].url = url})

(***************************************************************************)
(* The coroutines: an hourly tick (process_channels_by_time), a simulation *)
(* (simulate_scheduler_at_time) or a direct call of process_channel, each  *)
(* with the position it is suspended at.                                   *)
(***************************************************************************)
\* The coroutines in flight at once: two are enough for every overlap of a
\* coroutine with another.
Slots == {1, 2}

IdleTask ==
    [kind |-> "idle", pc |-> "idle", due |-> << >>, idx |-> 0,
     cand |-> NoVideo, script |-> << >>, trace |-> << >>, outcome |-> "none",
     result |-> FALSE, fault |-> "none", touched |-> FALSE,
     execute |-> FALSE, reset |-> FALSE]

\* The page process_channel is working on.
CurrentPage(task) == task.due[task.idx]

\* process_channel returns: the outcome and the return value are kept until the
\* caller resumes.
Return(task, outcome, result) ==
    [task EXCEPT !.pc = "ret", !.outcome = outcome, !.result = result]

Called(task, name) == [task EXCEPT !.trace = Append(task.trace, name)]

\* youtube_utils.py:369-379: what process_channel_url returns, None or the first
\* candidate that is neither live nor upcoming.
process_channel_url_results ==
    {NoVideo} \cup {Candidate(v, FALSE, FALSE) : v \in Videos}

\* What a stand-in for process_channel_url may return: any candidate.
stub_channel_url_results ==
    {NoVideo} \cup {Candidate(v, live, upcoming) :
                        v \in Videos, live \in BOOLEAN, upcoming \in BOOLEAN}

\* script_properties that takes the title from the video.
script_properties_video_title(page, latest_video) ==
    [title |-> latest_video.title, url |-> latest_video.url,
     name |-> channel_name_of(page), length |-> latest_video.video_length,
     status |-> "analysis"]

\* script_properties that files the record under the channel's URL.
script_properties_channel_url(page, latest_video) ==
    [title |-> keyword_of(page), url |-> "https://www.youtube.com/@chan",
     name |-> channel_name_of(page), length |-> latest_video.video_length,
     status |-> "analysis"]

\* scheduler.py:106-149: the properties of the new script page.
script_properties(page, latest_video) ==
    [title |-> keyword_of(page), url |-> latest_video.url,
     name |-> channel_name_of(page), length |-> latest_video.video_length,
     status |-> "analysis"]

\* script_usable without the test for the sentinel's prefix.
script_usable_nonempty(script) == script # << >>

\* script_usable without the test for an empty text.
script_usable_unless_sentinel(script) ==
    script = << >> \/ script[1] # SentinelPrefix

\* scheduler.py:100: script and not script.startswith(prefix)
script_usable(script) ==
    /\ script # << >>
    /\ script[1] # SentinelPrefix

\* pc_begin without the test for the channel marker in the URL.
pc_begin_any_url(t) ==
    LET task == tasks[t]
        page == CurrentPage(task)
    IN  /\ task.pc = "begin"
        /\ tasks' = [tasks EXCEPT ![t] =
               IF ~is_active(page) THEN Return(task, "inactive", FALSE)
               ELSE IF page.url = UrlMissing \/ keyword_of(page) = ""
                    THEN Return(task, "missing", FALSE)
               ELSE [task EXCEPT !.pc = "fetch"]]
        /\ UNCHANGED <<sources, records, scheduler, scheds, probe>>

\* pc_begin that reads the active flag of the page from the store again.
pc_begin_rereading(t) ==
    LET task == tasks[t]
        page == CurrentPage(task)
    IN  /\ task.pc = "begin"
        /\ tasks' = [tasks EXCEPT ![t] =
               IF ~is_active(sources[page.id]) THEN Return(task, "inactive", FALSE)
               ELSE IF page.url = UrlMissing \/ keyword_of(page) = ""
                    THEN Return(task, "missing", FALSE)
               ELSE IF ~is_channel_url(page.url)
                    THEN Return(task, "not_channel", FALSE)
               ELSE [task EXCEPT !.pc = "fetch"]]
        /\ UNCHANGED <<sources, records, scheduler, scheds, probe>>

\* scheduler.py:26-72: process_channel from its entry to the await of
\* process_channel_url.
pc_begin(t) ==
    LET task == tasks[t]
        page == CurrentPage(task)
    IN  /\ task.pc = "begin"
        /\ tasks' = [tasks EXCEPT ![t] =
               IF ~is_active(page) THEN Return(task, "inactive", FALSE)
               ELSE IF page.url = UrlMissing \/ keyword_of(page) = ""
                    THEN Return(task, "missing", FALSE)
               ELSE IF ~is_channel_url(page.url)
                    THEN Return(task, "not_channel", FALSE)
               ELSE [task EXCEPT !.pc = "fetch"]]
        /\ UNCHANGED <<sources, records, scheduler, scheds, probe>>

\* pc_fetch that deactivates the page when the video is live or upcoming.
pc_fetch_deactivating(t, results) ==
    LET task == Called(tasks[t], "fetch")
    IN  /\ tasks[t].pc = "fetch"
        /\ \E latest_video \in results :
               /\ tasks' = [tasks EXCEPT ![t] =
                      IF latest_video = NoVideo
                      THEN Return(task, "not_found", FALSE)
                      ELSE IF latest_video.is_upcoming \/ latest_video.is_live
                           THEN Return(task, "live_or_upcoming", FALSE)
                           ELSE [task EXCEPT !.pc = "dedup", !.cand = latest_video]]
               /\ sources' = IF latest_video # NoVideo
                                /\ (latest_video.is_upcoming \/ latest_video.is_live)
                             THEN update_notion_page(sources, CurrentPage(task).id, FALSE)
                             ELSE sources
        /\ UNCHANGED <<records, scheduler, scheds, probe>>

\* scheduler.py:72-85: process_channel_url has returned; up to the await of
\* check_script_exists.
pc_fetch(t, results) ==
    LET task == Called(tasks[t], "fetch")
    IN  /\ tasks[t].pc = "fetch"
        /\ \E latest_video \in results :
               tasks' = [tasks EXCEPT ![t] =
                   IF latest_video = NoVideo
                   THEN Return(task, "not_found", FALSE)
                   ELSE IF latest_video.is_upcoming \/ latest_video.is_live
                        THEN Return(task, "live_or_upcoming", FALSE)
                        ELSE [task EXCEPT !.pc = "dedup", !.cand = latest_video]]
        /\ UNCHANGED <<sources, records, scheduler, scheds, probe>>

\* pc_dedup that goes on to the transcript whatever the check returned.
pc_dedup_unheeded(t) ==
    LET task == Called(tasks[t], "dedup")
    IN  /\ tasks[t].pc = "dedup"
        /\ \E store \in {"ok", "raise"} :
               tasks' = [tasks EXCEPT ![t] =
                   IF store = "raise" THEN Return(task, "exception", FALSE)
                   ELSE [task EXCEPT !.pc = "transcript"]]
        /\ UNCHANGED <<sources, records, scheduler, scheds, probe>>

\* scheduler.py:85-89, 97 and 175-177: check_script_exists has returned or raised;
\* up to the await of update_notion_page, or to the call of get_video_transcript.
pc_dedup(t) ==
    LET task == Called(tasks[t], "dedup")
    IN  /\ tasks[t].pc = "dedup"
        /\ \E store \in {"ok", "raise"} :
               tasks' = [tasks EXCEPT ![t] =
                   IF store = "raise" THEN Return(task, "exception", FALSE)
                   ELSE IF check_script_exists(records, task.cand.url)
                        THEN [task EXCEPT !.pc = "update_duplicate"]
                        ELSE [task EXCEPT !.pc = "transcript"]]
        /\ UNCHANGED <<sources, records, scheduler, scheds, probe>>

\* pc_update that writes the status of the records of the video as well.
pc_update_marking_records(t) ==
    LET task == Called(tasks[t], "update")
        outcome == IF tasks[t].pc = "update_duplicate" THEN "duplicate" ELSE "created"
    IN  /\ tasks[t].pc \in {"update_duplicate", "update_created"}
        /\ \E store \in {"ok", "failed", "raise"} :
               /\ tasks' = [tasks EXCEPT ![t] =
                      IF store = "raise" THEN Return(task, "exception", FALSE)
                      ELSE Return([task EXCEPT !.fault =
                                      IF store = "failed" THEN "update_failed" ELSE "none"],
                                  outcome, TRUE)]
               /\ sources' = IF store = "ok"
                             THEN update_notion_page(sources, CurrentPage(task).id, FALSE)
                             ELSE sources
               /\ records' = IF store = "ok"
                             THEN [k \in 1 .. Len(records) |->
                                      IF records[k].url = task.cand.url
                                      THEN [records[k] EXCEPT !.status = "done"]
                                      ELSE records[k]]
                             ELSE records
        /\ UNCHANGED <<scheduler, scheds, probe>>

\* scheduler.py:89-94, 162-167 and 175-177: update_notion_page has returned or
\* raised; up to the return.
pc_update(t) ==
    LET task == Called(tasks[t], "update")
        outcome == IF tasks[t].pc = "update_duplicate" THEN "duplicate" ELSE "created"
    IN  /\ tasks[t].pc \in {"update_duplicate", "update_created"}
        /\ \E store \in {"ok", "failed", "raise"} :
               /\ tasks' = [tasks EXCEPT ![t] =
                      IF store = "raise" THEN Return(task, "exception", FALSE)
                      ELSE Return([task EXCEPT !.fault =
                                      IF store = "failed" THEN "update_failed" ELSE "none"],
                                  outcome, TRUE)]
               /\ sources' = IF store = "ok"
                             THEN update_notion_page(sources, CurrentPage(task).id, FALSE)
                             ELSE sources
        /\ UNCHANGED <<records, scheduler, scheds, probe>>

\* scheduler.py:97-156 and 171-173: get_video_transcript has returned; up to the
\* await of create_script_report_page.
pc_transcript(t) ==
    LET task == Called(tasks[t], "transcript")
    IN  /\ tasks[t].pc = "transcript"
        /\ \E script \in Transcripts :
               tasks' = [tasks EXCEPT ![t] =
                   IF script_usable(script)
                   THEN [task EXCEPT !.pc = "create", !.script = script]
                   ELSE Return([task EXCEPT !.script = script], "no_transcript", FALSE)]
        /\ UNCHANGED <<sources, records, scheduler, scheds, probe>>

\* pc_create that starts the next due page once the record is written, the write
\* of the flag of its own page still to come.
pc_create_next_page(t) ==
    LET task == Called(tasks[t], "create")
    IN  /\ tasks[t].pc = "create"
        /\ \E store \in {"ok", "null", "raise"} :
               /\ tasks' = [tasks EXCEPT ![t] =
                      IF store = "raise" THEN Return(task, "exception", FALSE)
                      ELSE IF store = "null" THEN Return(task, "create_failed", FALSE)
                      ELSE IF task.idx < Len(task.due)
                           THEN [task EXCEPT !.pc = "begin", !.idx = task.idx + 1,
                                             !.cand = NoVideo, !.script = << >>,
                                             !.trace = << >>]
                           ELSE [task EXCEPT !.pc = "update_created"]]
               /\ records' = IF store = "ok"
                             THEN create_script_report_page(records,
                                      script_properties(CurrentPage(task), task.cand),
                                      task.script)
                             ELSE records
        /\ UNCHANGED <<sources, scheduler, scheds, probe>>

\* scheduler.py:156-162, 168-170 and 175-177: create_script_report_page has
\* returned or raised; up to the await of update_notion_page.
pc_create(t) ==
    LET task == Called(tasks[t], "create")
    IN  /\ tasks[t].pc = "create"
        /\ \E store \in {"ok", "null", "raise"} :
               /\ tasks' = [tasks EXCEPT ![t] =
                      IF store = "raise" THEN Return(task, "exception", FALSE)
                      ELSE IF store = "null" THEN Return(task, "create_failed", FALSE)
                      ELSE [task EXCEPT !.pc = "update_created"]]
               /\ records' = IF store = "ok"
                             THEN create_script_report_page(records,
                                      script_properties(CurrentPage(task), task.cand),
                                      task.script)
                             ELSE records
        /\ UNCHANGED <<sources, scheduler, scheds, probe>>

\* pc_return of a tick that gives up at the first exception of a page.
pc_return_abort(t) ==
    LET task == tasks[t]
        more == task.idx < Len(task.due) /\ task.outcome # "exception"
    IN  /\ task.pc = "ret"
        /\ tasks' = [tasks EXCEPT ![t] =
               [task EXCEPT !.pc = IF more THEN "begin" ELSE "exit",
                            !.idx = task.idx + 1,
                            !.cand = NoVideo, !.script = << >>, !.trace = << >>,
                            !.outcome = "none", !.result = FALSE, !.fault = "none"]]
        /\ UNCHANGED <<sources, records, scheduler, scheds, probe>>

\* scheduler.py:239-244 and 363-367: the caller resumes with the return value and
\* goes on to the next due page, or is through.
pc_return(t) ==
    LET task == tasks[t]
        more == task.idx < Len(task.due)
    IN  /\ task.pc = "ret"
        /\ tasks' = [tasks EXCEPT ![t] =
               [task EXCEPT !.pc = IF more THEN "begin" ELSE "exit",
                            !.idx = task.idx + 1,
                            !.cand = NoVideo, !.script = << >>, !.trace = << >>,
                            !.outcome = "none", !.result = FALSE, !.fault = "none"]]
        /\ UNCHANGED <<sources, records, scheduler, scheds, probe>>

\* The coroutine returns to the event loop.
task_end(t) ==
    /\ tasks[t].pc \in {"exit", "weekend"}
    /\ tasks' = [tasks EXCEPT ![t] = IdleTask]
    /\ UNCHANGED <<sources, records, scheduler, scheds, probe>>

(***************************************************************************)
(* The scheduler: setup_scheduler and the jobs of the running instance.    *)
(***************************************************************************)
\* scheduler.py:266-271: the reset job
reset_job ==
    [id |-> <<"reset_channels_daily">>, func |-> "reset_channels_daily",
     args |-> << >>, hour |-> 4, minute |-> 0]

\* scheduler.py:275-281: the job of one hour
hourly_job(hour) ==
    [id |-> <<"process_channels", hour>>, func |-> "process_channels_by_time",
     args |-> <<hour>>, hour |-> hour, minute |-> 0]

\* add_job(..., id=..., replace_existing=True): a job store holds one job per id
add_job(jobs, job) ==
    {j \in jobs : j.id # job.id} \cup {job}

\* scheduler.py:274-281: for hour in range(24): scheduler.add_job(...)
RECURSIVE add_hourly_jobs(_, _)
add_hourly_jobs(jobs, hour) ==
    IF hour >= 24 THEN jobs
    ELSE add_hourly_jobs(add_job(jobs, hourly_job(hour)), hour + 1)

\* setup_scheduler without the shutdown of the scheduler it replaces.
shutdown_skipped(instances, handle) == instances

\* scheduler.py:260-261: if scheduler is not None: scheduler.shutdown()
shutdown(instances, handle) ==
    IF handle # 0
    THEN [instances EXCEPT ![handle] = [@ EXCEPT !.running = FALSE]]
    ELSE instances

\* scheduler.py:256-287: setup_scheduler
setup_scheduler ==
    /\ Len(scheds) < MaxSetups
    /\ scheds' = Append(shutdown(scheds, scheduler),
                        [running |-> TRUE,
                         jobs |-> add_hourly_jobs(add_job({}, reset_job), 0)])
    /\ scheduler' = Len(scheds) + 1
    /\ UNCHANGED <<sources, records, tasks, probe>>

\* scheduler.py:268 and 277: CronTrigger(hour=..., minute=...): the trigger fires
\* at that hour and minute of every day, the day of the week being left open.
cron_fires(job, hour, minute, weekday) ==
    job.hour = hour /\ job.minute = minute

\* The jobs a scheduler instance fires: those of a running scheduler.
LiveJobs(i) == IF scheds[i].running THEN scheds[i].jobs ELSE {}

(***************************************************************************)
(* The hourly tick, the daily reset, the simulation and the direct call.   *)
(***************************************************************************)
\* process_channels_by_time whose start ends the ticks that are still running.
process_channels_by_time_preempting(t, target_hour, weekday) ==
    /\ tasks[t].kind = "idle"
    /\ tasks' = [s \in Slots |->
           IF s # t
           THEN (IF tasks[s].kind = "tick" THEN IdleTask ELSE tasks[s])
           ELSE IF is_weekend(weekday)
                THEN [IdleTask EXCEPT !.kind = "tick", !.pc = "weekend"]
                ELSE LET due == channels_to_process(sources, target_hour)
                     IN  [IdleTask EXCEPT !.kind = "tick",
                                          !.pc = IF due = << >> THEN "exit" ELSE "begin",
                                          !.due = due, !.idx = 1, !.touched = TRUE]]
    /\ UNCHANGED <<sources, records, scheduler, scheds, probe>>

\* scheduler.py:179-234: process_channels_by_time from its entry to the first
\* call of process_channel: the weekend test, the query and the selection.
process_channels_by_time(t, target_hour, weekday) ==
    /\ tasks[t].kind = "idle"
    /\ tasks' = [tasks EXCEPT ![t] =
           IF is_weekend(weekday)
           THEN [IdleTask EXCEPT !.kind = "tick", !.pc = "weekend"]
           ELSE LET due == channels_to_process(sources, target_hour)
                IN  [IdleTask EXCEPT !.kind = "tick",
                                     !.pc = IF due = << >> THEN "exit" ELSE "begin",
                                     !.due = due, !.idx = 1, !.touched = TRUE]]
    /\ UNCHANGED <<sources, records, scheduler, scheds, probe>>

\* scheduler.py:274-281: an hourly job of a running scheduler fires; its argument
\* is the target hour.
fire_hourly_job(t, i, job, weekday) ==
    /\ job \in LiveJobs(i)
    /\ job.func = "process_channels_by_time"
    /\ process_channels_by_time(t, job.args[1], weekday)

\* What the reset's store call leaves: every page active when it succeeds, some
\* pages written and others not when it fails.
reset_outcomes(pages) ==
    {[success |-> TRUE, pages |-> reset_all_channels(pages)]}
    \cup {[success |-> FALSE, pages |-> reset_some_channels(pages, done)] :
             done \in (SUBSET (1 .. Len(pages))) \ {1 .. Len(pages)}}

\* scheduler.py:246-254: reset_channels_daily
reset_channels_daily ==
    /\ \E outcome \in reset_outcomes(sources) : sources' = outcome.pages
    /\ UNCHANGED <<records, tasks, scheduler, scheds, probe>>

\* scheduler.py:265-271: the reset job of a running scheduler fires.
fire_reset_job(i, job) ==
    /\ job \in LiveJobs(i)
    /\ job.func = "reset_channels_daily"
    /\ reset_channels_daily

\* simulate_scheduler_at_time running the reset at 04:00 in either mode.
simulate_scheduler_at_time_resetting(t, hour, minute, weekday, simulate_only) ==
    /\ tasks[t].kind = "idle"
    /\ IF is_weekend(weekday)
       THEN /\ tasks' = [tasks EXCEPT ![t] =
                   [IdleTask EXCEPT !.kind = "sim", !.pc = "weekend",
                                    !.execute = ~simulate_only]]
            /\ sources' = sources
       ELSE LET reset == hour = 4 /\ minute = 0
            IN  /\ IF reset
                   THEN \E outcome \in reset_outcomes(sources) :
                            sources' = outcome.pages
                   ELSE sources' = sources
                /\ LET due == simulated_tasks(sources', hour)
                   IN  tasks' = [tasks EXCEPT ![t] =
                           [IdleTask EXCEPT
                               !.kind = "sim", !.due = due,
                               !.execute = ~simulate_only, !.reset = reset,
                               !.touched = TRUE,
                               !.idx = IF simulate_only THEN Len(due) + 1 ELSE 1,
                               !.pc = IF simulate_only \/ due = << >>
                                      THEN "exit" ELSE "begin"]]
    /\ UNCHANGED <<records, scheduler, scheds, probe>>

\* scheduler.py:289-358: simulate_scheduler_at_time from its entry to the first
\* call of process_channel (execute mode) or to its return (report only).
simulate_scheduler_at_time(t, hour, minute, weekday, simulate_only) ==
    /\ tasks[t].kind = "idle"
    /\ IF is_weekend(weekday)
       THEN /\ tasks' = [tasks EXCEPT ![t] =
                   [IdleTask EXCEPT !.kind = "sim", !.pc = "weekend",
                                    !.execute = ~simulate_only]]
            /\ sources' = sources
       ELSE LET reset == hour = 4 /\ minute = 0
            IN  /\ IF reset /\ ~simulate_only
                   THEN \E outcome \in reset_outcomes(sources) :
                            sources' = outcome.pages
                   ELSE sources' = sources
                /\ LET due == simulated_tasks(sources', hour)
                   IN  tasks' = [tasks EXCEPT ![t] =
                           [IdleTask EXCEPT
                               !.kind = "sim", !.due = due,
                               !.execute = ~simulate_only, !.reset = reset,
                               !.touched = TRUE,
                               !.idx = IF simulate_only THEN Len(due) + 1 ELSE 1,
                               !.pc = IF simulate_only \/ due = << >>
                                      THEN "exit" ELSE "begin"]]
    /\ UNCHANGED <<records, scheduler, scheds, probe>>

\* scheduler.py:24-29: process_channel called on its own with a page of the
\* reference DB as the caller holds it: the flag, the keyword and the URL are the
\* caller's.
direct_call(t, page) ==
    /\ tasks[t].kind = "idle"
    /\ tasks' = [tasks EXCEPT ![t] =
           [IdleTask EXCEPT !.kind = "direct", !.due = <<page>>, !.idx = 1,
                            !.pc = "begin"]]
    /\ UNCHANGED <<sources, records, scheduler, scheds, probe>>

(***************************************************************************)
(* The specifications.                                                     *)
(***************************************************************************)
NoProbe == [op |-> "none", upload_time |-> 0, target_hour |-> 0,
            should_process |-> FALSE, extraction_times |-> << >>]

\* The reference DB with its first n pages, each active or not.
Tables(n) ==
    {pages \in [1 .. n -> {TablePage(i, c) : i \in 1 .. n, c \in {<<TRUE>>, <<FALSE>>}}] :
        \A k \in 1 .. n : pages[k].id = k}

\* scheduler.py:22 and 256-287: the module after one call of setup_scheduler.
Started ==
    /\ scheduler = 1
    /\ scheds = <<[running |-> TRUE,
                   jobs |-> add_hourly_jobs(add_job({}, reset_job), 0)]>>

\* What one coroutine does next.
Step(t, results) ==
    \/ pc_begin(t)
    \/ pc_fetch(t, results)
    \/ pc_dedup(t)
    \/ pc_update(t)
    \/ pc_transcript(t)
    \/ pc_create(t)
    \/ pc_return(t)
    \/ task_end(t)

OneVideo == {r \in process_channel_url_results : r.video_id \in {"none", "v1"}}

\* The service with its scheduler started, when no two coroutines overlap: hourly
\* ticks, daily resets and simulations, one after the other.
Init ==
    /\ sources \in Tables(NumSources)
    /\ records = << >>
    /\ tasks = [t \in Slots |-> IdleTask]
    /\ Started
    /\ probe = NoProbe

Next ==
    \/ \E h \in Hours, weekday \in Weekdays :
           fire_hourly_job(1, scheduler, hourly_job(h), weekday)
    \/ fire_reset_job(scheduler, reset_job)
    \/ \E hour \in Hours, minute \in Minutes, weekday \in Weekdays,
          simulate_only \in BOOLEAN :
           simulate_scheduler_at_time(1, hour, minute, weekday, simulate_only)
    \/ Step(1, OneVideo)

Spec == Init /\ [][Next]_vars

\* The service when coroutines overlap: a tick that is still running when the next
\* hourly job fires, or when a simulation is run in execute mode. The scheduler
\* runs one instance of a job at a time (max_instances is left at 1), so the two
\* ticks that overlap are those of different hours: slot 1 runs the jobs of the
\* odd hours and slot 2 those of the even hours.
RaceTables == Tables(1)

InitRace ==
    /\ sources \in RaceTables
    /\ records = << >>
    /\ tasks = [t \in Slots |-> IdleTask]
    /\ Started
    /\ probe = NoProbe

NextRace ==
    \/ \E t \in Slots, h \in Hours, weekday \in Weekdays :
           /\ h % 2 = t % 2
           /\ fire_hourly_job(t, scheduler, hourly_job(h), weekday)
    \/ fire_reset_job(scheduler, reset_job)
    \/ \E t \in Slots, hour \in Hours, minute \in Minutes, weekday \in Weekdays,
          simulate_only \in BOOLEAN :
           simulate_scheduler_at_time(t, hour, minute, weekday, simulate_only)
    \/ \E t \in Slots : Step(t, OneVideo)

SpecRace == InitRace /\ [][NextRace]_vars

\* The same service on an event loop that runs every coroutine that can go on,
\* with network and store calls that return.
SpecRaceLive ==
    InitRace /\ [][NextRace]_vars /\ \A t \in Slots : WF_vars(Step(t, OneVideo))

\* process_channel on its own: called with any page, with a stand-in for the
\* fetch pipeline that may return any candidate, one call after the other; the
\* pages are reactivated in between.
UnitTables == Tables(2)

InitUnit ==
    /\ sources \in UnitTables
    /\ records = << >>
    /\ tasks = [t \in Slots |-> IdleTask]
    /\ scheduler = 0
    /\ scheds = << >>
    /\ probe = NoProbe

NextUnit ==
    \/ \E k \in 1 .. Len(sources), checkbox \in Checkboxes, title \in Titles,
          url \in Urls :
           direct_call(1, Page(k, checkbox, title, url, sources[k].number))
    \/ reset_channels_daily
    \/ Step(1, stub_channel_url_results)

SpecUnit == InitUnit /\ [][NextUnit]_vars

\* setup_scheduler called again and again, with the jobs firing in between.
InitSched ==
    /\ sources \in UnitTables
    /\ records = << >>
    /\ tasks = [t \in Slots |-> IdleTask]
    /\ scheduler = 0
    /\ scheds = << >>
    /\ probe = NoProbe

NextSched ==
    \/ setup_scheduler
    \/ \E i \in 1 .. Len(scheds), h \in Hours, weekday \in Weekdays :
           fire_hourly_job(1, i, hourly_job(h), weekday)
    \/ \E i \in 1 .. Len(scheds) : fire_reset_job(i, reset_job)
    \/ Step(1, OneVideo)

SpecSched == InitSched /\ [][NextSched]_vars

\* The dispatch window as a function: an upload time and a target hour are drawn,
\* and both computations of the window are applied to them.
InitWindow ==
    /\ sources = << >>
    /\ records = << >>
    /\ tasks = [t \in Slots |-> IdleTask]
    /\ scheduler = 0
    /\ scheds = << >>
    /\ probe \in {[NoProbe EXCEPT !.op = "window", !.upload_time = u,
                                  !.target_hour = h] : u \in Hours, h \in Hours}

apply_window ==
    /\ probe.op = "window"
    /\ probe' = [probe EXCEPT
           !.op = "done",
           !.should_process = should_process(probe.upload_time, probe.target_hour),
           !.extraction_times = extraction_times(probe.upload_time)]
    /\ UNCHANGED <<sources, records, tasks, scheduler, scheds>>

NextWindow == apply_window

SpecWindow == InitWindow /\ [][NextWindow]_vars

(***************************************************************************)
(* The due set, as the hourly tick and as the simulation compute it from   *)
(* the same reference DB.                                                  *)
(***************************************************************************)
\* The longest reference DB the two computations are compared on.
MaxPages == 2

\* scheduler.py:182-232: the pages an hourly tick selects on a weekday
tick_channels(reference_pages, target_hour, weekday) ==
    IF is_weekend(weekday) THEN << >>
    ELSE channels_to_process(reference_pages, target_hour)

\* scheduler.py:292-358: the pages of the extraction tasks a simulation reports
simulation_channels(reference_pages, hour, weekday) ==
    IF is_weekend(weekday) THEN << >>
    ELSE simulated_tasks(reference_pages, hour)

\* Pages with every state of the checkbox and upload times on both sides of the
\* limits 12 and 20, or without the number.
DuePages ==
    {Page(1, c, <<"X">>, UrlChannel, n) :
        c \in Checkboxes, n \in {Absent, <<11>>, <<12>>, <<19>>, <<20>>}}

DueTables == UNION {[1 .. n -> DuePages] : n \in 0 .. MaxPages}

InitDue ==
    /\ sources = << >>
    /\ records = << >>
    /\ tasks = [t \in Slots |-> IdleTask]
    /\ scheduler = 0
    /\ scheds = << >>
    /\ probe \in {[op |-> "due", pages |-> pages, hour |-> h, weekday |-> w,
                   tick |-> << >>, simulation |-> << >>] :
                     pages \in DueTables, h \in Hours, w \in Weekdays}

apply_due ==
    /\ probe.op = "due"
    /\ probe' = [probe EXCEPT
           !.op = "listed",
           !.tick = tick_channels(probe.pages, probe.hour, probe.weekday),
           !.simulation = simulation_channels(probe.pages, probe.hour, probe.weekday)]
    /\ UNCHANGED <<sources, records, tasks, scheduler, scheds>>

NextDue == apply_due

SpecDue == InitDue /\ [][NextDue]_vars

(***************************************************************************)
(* The candidate finder: find_videos_with_keyword over a parsed payload.   *)
(* A payload is the part of ytInitialData the finder reads: the tabs of a  *)
(* twoColumnBrowseResultsRenderer and a top-level sectionListRenderer, each *)
(* there or not. A tab's content holds a sectionListRenderer, a            *)
(* richGridRenderer, or, for the content the finder wraps itself, the      *)
(* contents of a section list. A title is a sequence of words.             *)
(***************************************************************************)
\* The longest list of video items in one renderer.
MaxItems == 3

Keyword == "X"

\* str.lower() on the words the model uses
lower(word) == IF word = "X" THEN "x" ELSE word

\* youtube_utils.py:142, 196 and 264: keyword.lower() in title.lower()
title_matches(keyword, title) ==
    \E k \in 1 .. Len(title) : lower(title[k]) = lower(keyword)

\* A videoRenderer or gridVideoRenderer: its id, its title, the style of its time
\* status overlay and whether it carries the live-now badge.
Item(v, title, style, badge) ==
    [video_id |-> v, title |-> title, style |-> style, badge |-> badge]

Items ==
    { Item("v1", <<"X", "review">>, "DEFAULT", FALSE),
      Item("v2", <<"daily", "x">>, "DEFAULT", FALSE),
      Item("v3", <<"X", "now">>, "LIVE", FALSE),
      Item("v4", <<"X", "soon">>, "UPCOMING", FALSE),
      Item("v5", <<"X", "premiere">>, "UPCOMING", TRUE),
      Item("v6", <<"other">>, "DEFAULT", FALSE) }

ItemLists(n) == UNION {[1 .. m -> Items] : m \in 0 .. n}

\* youtube_utils.py:144-182, 198-243 and 266-311: the video a matching renderer yields
video_of(item) ==
    Candidate(item.video_id,
              item.style = "LIVE" \/ item.badge,
              item.style = "UPCOMING")

\* youtube_utils.py:124-244 and 248-312: the matching videos of a list of items,
\* in the order of the list
RECURSIVE matching_videos(_, _)
matching_videos(items, keyword) ==
    IF items = << >> THEN << >>
    ELSE (IF title_matches(keyword, Head(items).title)
          THEN <<video_of(Head(items))>> ELSE << >>)
         \o matching_videos(Tail(items), keyword)

\* A tab. renderer: "tab" for a well-formed tabRenderer, "none" for a tab without
\* one, "bad" for one whose tabRenderer is not an object (reading it raises).
Tab(renderer, section_list, rich_grid, contents) ==
    [renderer |-> renderer, section_list |-> section_list,
     rich_grid |-> rich_grid, contents |-> contents]

RichTab(items) == Tab("tab", Absent, <<items>>, Absent)
SectionTab(items) == Tab("tab", <<items>>, Absent, Absent)
BothTab(section, rich) == Tab("tab", <<section>>, <<rich>>, Absent)
EmptyTab == Tab("tab", Absent, Absent, Absent)
NoTab == Tab("none", Absent, Absent, Absent)
BadTab == Tab("bad", Absent, Absent, Absent)

Data(two_column, section_list) ==
    [two_column |-> two_column, section_list |-> section_list]

\* youtube_utils.py:99-111: tab_renderers. The top-level section list is wrapped
\* as the content of one tab: content is the sectionListRenderer object itself,
\* whose key is "contents".
tab_renderers(data) ==
    IF data.two_column # Absent THEN data.two_column[1]
    ELSE IF data.section_list # Absent
         THEN <<Tab("tab", Absent, Absent, data.section_list)>>
         ELSE << >>

\* youtube_utils.py:123-312: the videos of one tab: those of its section list if
\* the content has the key sectionListRenderer, else those of its rich grid if it
\* has the key richGridRenderer, else none.
tab_videos(tab, keyword) ==
    IF tab.section_list # Absent THEN matching_videos(tab.section_list[1], keyword)
    ELSE IF tab.rich_grid # Absent THEN matching_videos(tab.rich_grid[1], keyword)
         ELSE << >>

\* youtube_utils.py:314-317: videos.sort(key=...), a stable sort on the key -1 for
\* live, 1 for upcoming, 0 for the rest
sort_key(video) == IF video.is_live THEN -1 ELSE IF video.is_upcoming THEN 1 ELSE 0

sort_videos(videos) ==
    SelectSeq(videos, LAMBDA v : sort_key(v) = -1)
        \o SelectSeq(videos, LAMBDA v : sort_key(v) = 0)
        \o SelectSeq(videos, LAMBDA v : sort_key(v) = 1)

\* youtube_utils.py:115-312 and 320-322: the loop over the tabs, gathering the
\* videos in the order they are met; a tab that raises ends the loop in the
\* except clause with the videos gathered so far.
RECURSIVE examine_tabs(_, _, _, _)
examine_tabs(tabs, k, videos, keyword) ==
    IF k > Len(tabs) THEN [videos |-> videos, raised |-> FALSE]
    ELSE IF tabs[k].renderer = "none" THEN examine_tabs(tabs, k + 1, videos, keyword)
    ELSE IF tabs[k].renderer = "bad" THEN [videos |-> videos, raised |-> TRUE]
    ELSE examine_tabs(tabs, k + 1, videos \o tab_videos(tabs[k], keyword), keyword)

\* The videos gathered from a payload, and whether the gathering raised.
gathered(data, keyword) ==
    IF tab_renderers(data) = << >> THEN [videos |-> << >>, raised |-> FALSE]
    ELSE examine_tabs(tab_renderers(data), 1, << >>, keyword)

\* youtube_utils.py:93-322: find_videos_with_keyword: the gathered videos, sorted
\* when the loop ran to its end, as they are when the except clause returns them.
find_videos_with_keyword(data, keyword) ==
    IF gathered(data, keyword).raised
    THEN gathered(data, keyword).videos
    ELSE sort_videos(gathered(data, keyword).videos)

\* The payloads the finder is applied to: one tab with any list of items, two
\* tabs with short lists, well-formed or not, and a top-level section list with
\* or without the two-column layout beside it.
ShortTabs ==
    {RichTab(l) : l \in ItemLists(1)} \cup {SectionTab(l) : l \in ItemLists(1)}
        \cup {BothTab(<<Item("v1", <<"X", "review">>, "DEFAULT", FALSE)>>,
                      <<Item("v3", <<"X", "now">>, "LIVE", FALSE)>>),
              EmptyTab, NoTab, BadTab}

Payloads ==
    {Data(<<(<<RichTab(l)>>)>>, Absent) : l \in ItemLists(MaxItems)}
        \cup {Data(<<(<<SectionTab(l)>>)>>, Absent) : l \in ItemLists(MaxItems)}
        \cup {Data(<<(<<t1, t2>>)>>, Absent) : t1 \in ShortTabs, t2 \in ShortTabs}
        \cup {Data(<<(<<RichTab(l), BadTab>>)>>, Absent) : l \in ItemLists(MaxItems)}
        \cup {Data(Absent, <<l>>) : l \in ItemLists(MaxItems)}
        \cup {Data(<<(<<t>>)>>, <<l>>) : t \in ShortTabs, l \in ItemLists(1)}
        \cup {Data(Absent, Absent)}

\* The finder applied to a payload.
InitFinder ==
    /\ sources = << >>
    /\ records = << >>
    /\ tasks = [t \in Slots |-> IdleTask]
    /\ scheduler = 0
    /\ scheds = << >>
    /\ probe \in {[op |-> "find", data |-> data, keyword |-> Keyword,
                   videos |-> << >>, merged |-> << >>, raised |-> FALSE] :
                     data \in Payloads}

apply_finder ==
    /\ probe.op = "find"
    /\ probe' = [probe EXCEPT
           !.op = "found",
           !.videos = find_videos_with_keyword(probe.data, probe.keyword),
           !.merged = gathered(probe.data, probe.keyword).videos,
           !.raised = gathered(probe.data, probe.keyword).raised]
    /\ UNCHANGED <<sources, records, tasks, scheduler, scheds>>

NextFinder == apply_finder

SpecFinder == InitFinder /\ [][NextFinder]_vars

(***************************************************************************)
(* The fetch pipeline: process_channel_url, one GET per attempt.           *)
(***************************************************************************)
\* The largest retry budget process_channel_url is called with; process_channel
\* leaves it at the default.
MaxRetries == 3

\* What one attempt can meet: a timeout, an HTTP error status, another exception,
\* a page extract_initial_data gets nothing from, or a page with a payload.
FailureKinds == {"timeout", "http_error", "exception", "no_data"}

Response(kind, data) == [kind |-> kind, data |-> data]

ItemV1 == Item("v1", <<"X", "review">>, "DEFAULT", FALSE)
ItemV2 == Item("v2", <<"daily", "x">>, "DEFAULT", FALSE)
ItemV3 == Item("v3", <<"X", "now">>, "LIVE", FALSE)
ItemV4 == Item("v4", <<"X", "soon">>, "UPCOMING", FALSE)
ItemV6 == Item("v6", <<"other">>, "DEFAULT", FALSE)

FetchPayloads ==
    { Data(<<(<<RichTab(<<ItemV4, ItemV3, ItemV1, ItemV2>>)>>)>>, Absent),
      Data(<<(<<SectionTab(<<ItemV2, ItemV3>>), BadTab>>)>>, Absent),
      Data(<<(<<RichTab(<<ItemV3, ItemV4>>)>>)>>, Absent),
      Data(<<(<<RichTab(<<ItemV6>>)>>)>>, Absent),
      Data(Absent, <<(<<ItemV1>>)>>) }

Responses ==
    {Response(kind, Data(Absent, Absent)) : kind \in FailureKinds}
        \cup {Response("page", data) : data \in FetchPayloads}

\* youtube_utils.py:356, 383, 392, 399 and 427: the delay before the next attempt
backoff_doubled(attempt) == 2 ^ (attempt + 1)

backoff(attempt) == 2 ^ attempt

\* youtube_utils.py:355, 382, 391, 398 and 426: attempt < max_retries - 1
may_retry_last(attempt, max_retries) == attempt < max_retries

may_retry(attempt, max_retries) == attempt < max_retries - 1

\* youtube_utils.py:369-379: normal_videos[0], or None when there is none
latest_video_unfiltered(videos) ==
    IF videos = << >> THEN NoVideo ELSE videos[1]

\* latest_video with a filter that lets the upcoming videos through.
latest_video_not_live(videos) ==
    LET normal_videos == SelectSeq(videos, LAMBDA v : ~v.is_live)
    IN  IF normal_videos = << >> THEN NoVideo ELSE normal_videos[1]

latest_video(videos) ==
    LET normal_videos == SelectSeq(videos, LAMBDA v : ~v.is_live /\ ~v.is_upcoming)
    IN  IF normal_videos = << >> THEN NoVideo ELSE normal_videos[1]

\* The pipeline before its first attempt.
FetchStart(max_retries) ==
    [op |-> "fetch", max_retries |-> max_retries, keyword |-> Keyword,
     attempt |-> 0, pc |-> "get", gets |-> << >>, sleeps |-> << >>,
     result |-> NoVideo, raised |-> FALSE]

\* The retry loop with a page without candidates handled as a failed attempt.
client_get_retry_empty ==
    /\ probe.op = "fetch" /\ probe.pc = "get"
    /\ probe.attempt < probe.max_retries
    /\ \E response \in Responses :
           LET videos == find_videos_with_keyword(response.data, probe.keyword)
               got == [probe EXCEPT !.gets = Append(probe.gets, response)]
               failed == response.kind \in FailureKinds
                         \/ (response.kind = "page" /\ videos = << >>)
           IN  probe' =
                   IF failed
                   THEN IF may_retry(probe.attempt, probe.max_retries)
                        THEN [got EXCEPT !.pc = "sleep"]
                        ELSE [got EXCEPT !.pc = "done", !.result = NoVideo]
                   ELSE [got EXCEPT !.pc = "done", !.result = latest_video(videos)]
    /\ UNCHANGED <<sources, records, tasks, scheduler, scheds>>

\* youtube_utils.py:339-401: one pass of the retry loop, from client.get to the
\* sleep before the next attempt or to the return.
client_get ==
    /\ probe.op = "fetch" /\ probe.pc = "get"
    /\ probe.attempt < probe.max_retries
    /\ \E response \in Responses :
           LET videos == find_videos_with_keyword(response.data, probe.keyword)
               got == [probe EXCEPT !.gets = Append(probe.gets, response)]
           IN  probe' =
                   IF response.kind \in FailureKinds
                   THEN IF may_retry(probe.attempt, probe.max_retries)
                        THEN [got EXCEPT !.pc = "sleep"]
                        ELSE [got EXCEPT !.pc = "done", !.result = NoVideo]
                   ELSE [got EXCEPT !.pc = "done", !.result = latest_video(videos)]
    /\ UNCHANGED <<sources, records, tasks, scheduler, scheds>>

\* youtube_utils.py:356-357, 383, 392 and 399: await asyncio.sleep(2 ** attempt),
\* then the next pass of the loop.
asyncio_sleep ==
    /\ probe.op = "fetch" /\ probe.pc = "sleep"
    /\ probe' = [probe EXCEPT !.sleeps = Append(probe.sleeps, backoff(probe.attempt)),
                              !.attempt = probe.attempt + 1,
                              !.pc = "get"]
    /\ UNCHANGED <<sources, records, tasks, scheduler, scheds>>

InitFetch ==
    /\ sources = << >>
    /\ records = << >>
    /\ tasks = [t \in Slots |-> IdleTask]
    /\ scheduler = 0
    /\ scheds = << >>
    /\ probe \in {FetchStart(max_retries) : max_retries \in 1 .. MaxRetries}

NextFetch == client_get \/ asyncio_sleep

SpecFetch == InitFetch /\ [][NextFetch]_vars

\* The same pipeline on an event loop that keeps running it: a request ends, with
\* a response or with the timeout of youtube_utils.py:347, and a sleep ends.
SpecFetchLive == InitFetch /\ [][NextFetch]_vars /\ WF_vars(NextFetch)

(***************************************************************************)
(* process_channel on top of the fetch pipeline: the channel page is one   *)
(* of the payloads, and the fetch returns what the pipeline makes of it,   *)
(* or None when the transport fails; beside it, process_channel on top of  *)
(* a stand-in that returns any candidate.                                  *)
(***************************************************************************)
\* scheduler.py:72: what the await of process_channel_url yields
channel_results ==
    IF probe.op = "pipeline"
    THEN {NoVideo, latest_video(find_videos_with_keyword(probe.data, Keyword))}
    ELSE stub_channel_url_results

InitPipe ==
    /\ sources \in UnitTables
    /\ records = << >>
    /\ tasks = [t \in Slots |-> IdleTask]
    /\ scheduler = 0
    /\ scheds = << >>
    /\ probe \in {[op |-> op, data |-> data] :
                     op \in {"pipeline", "stand-in"}, data \in FetchPayloads}

NextPipe ==
    \/ \E k \in 1 .. Len(sources) : direct_call(1, sources[k])
    \/ reset_channels_daily
    \/ Step(1, channel_results)

SpecPipe == InitPipe /\ [][NextPipe]_vars

(***************************************************************************)
(* The transcript retriever: get_video_transcript, two fetches per round.  *)
(***************************************************************************)
\* What YouTubeTranscriptApi.get_transcript can do: return the entries of a
\* transcript, or raise.
TranscriptErrors == {"TranscriptsDisabled", "NoTranscriptFound"}

Fetched(lang, ok, entries, error) ==
    [lang |-> lang, ok |-> ok, entries |-> entries, error |-> error]

KoFetches ==
    {Fetched("ko", TRUE, <<(<<"annyeong">>), (<<"haseyo", "yeoreobun">>)>>, "none")}
        \cup {Fetched("ko", FALSE, << >>, e) : e \in TranscriptErrors}

AutoFetches ==
    {Fetched("auto", TRUE, <<(<<"hello", "world">>)>>, "none"),
     Fetched("auto", TRUE, << >>, "none")}
        \cup {Fetched("auto", FALSE, << >>, e) : e \in TranscriptErrors}

\* youtube_utils.py:414 and 422: " ".join of the entries' texts; a text is the
\* sequence of its words
RECURSIVE joined(_)
joined(entries) ==
    IF entries = << >> THEN << >> ELSE Head(entries) \o joined(Tail(entries))

\* youtube_utils.py:429: the sentinel with the error of the round's second fetch
unavailable(error) == <<SentinelPrefix, ": " \o error>>

TranscriptStart(max_retries) ==
    [op |-> "transcript", max_retries |-> max_retries, attempt |-> 0, pc |-> "ko",
     calls |-> << >>, sleeps |-> << >>, result |-> << >>]

\* get_transcript_ko giving the round up when the Korean fetch fails.
get_transcript_ko_no_fallback ==
    /\ probe.op = "transcript" /\ probe.pc = "ko"
    /\ probe.attempt < probe.max_retries
    /\ \E fetch \in KoFetches :
           LET called == [probe EXCEPT !.calls = Append(probe.calls, fetch)]
           IN  probe' =
                   IF fetch.ok
                   THEN [called EXCEPT !.pc = "done", !.result = joined(fetch.entries)]
                   ELSE IF may_retry(probe.attempt, probe.max_retries)
                        THEN [called EXCEPT !.pc = "sleep"]
                        ELSE [called EXCEPT !.pc = "done",
                                            !.result = unavailable(fetch.error)]
    /\ UNCHANGED <<sources, records, tasks, scheduler, scheds>>

\* youtube_utils.py:409-416: the start of a round: the fetch with languages=["ko"]
get_transcript_ko ==
    /\ probe.op = "transcript" /\ probe.pc = "ko"
    /\ probe.attempt < probe.max_retries
    /\ \E fetch \in KoFetches :
           LET called == [probe EXCEPT !.calls = Append(probe.calls, fetch)]
           IN  probe' =
                   IF fetch.ok
                   THEN [called EXCEPT !.pc = "done", !.result = joined(fetch.entries)]
                   ELSE [called EXCEPT !.pc = "auto"]
    /\ UNCHANGED <<sources, records, tasks, scheduler, scheds>>

\* youtube_utils.py:418-429: the fetch without a language, and the end of a round
\* in which it fails too
get_transcript_auto ==
    /\ probe.op = "transcript" /\ probe.pc = "auto"
    /\ \E fetch \in AutoFetches :
           LET called == [probe EXCEPT !.calls = Append(probe.calls, fetch)]
           IN  probe' =
                   IF fetch.ok
                   THEN [called EXCEPT !.pc = "done", !.result = joined(fetch.entries)]
                   ELSE IF may_retry(probe.attempt, probe.max_retries)
                        THEN [called EXCEPT !.pc = "sleep"]
                        ELSE [called EXCEPT !.pc = "done",
                                            !.result = unavailable(fetch.error)]
    /\ UNCHANGED <<sources, records, tasks, scheduler, scheds>>

\* youtube_utils.py:427: await asyncio.sleep(2 ** attempt), then the next round
transcript_sleep ==
    /\ probe.op = "transcript" /\ probe.pc = "sleep"
    /\ probe' = [probe EXCEPT !.sleeps = Append(probe.sleeps, backoff(probe.attempt)),
                              !.attempt = probe.attempt + 1,
                              !.pc = "ko"]
    /\ UNCHANGED <<sources, records, tasks, scheduler, scheds>>

InitTranscript ==
    /\ sources = << >>
    /\ records = << >>
    /\ tasks = [t \in Slots |-> IdleTask]
    /\ scheduler = 0
    /\ scheds = << >>
    /\ probe \in {TranscriptStart(max_retries) : max_retries \in 1 .. MaxRetries}

NextTranscript == get_transcript_ko \/ get_transcript_auto \/ transcript_sleep

SpecTranscript == InitTranscript /\ [][NextTranscript]_vars

(***************************************************************************)
(* The two network operations with every retry budget from 0 on: with the  *)
(* budget 0 the loop over range(max_retries) has no pass and the function   *)
(* goes to the return that follows the loop.                               *)
(***************************************************************************)
\* youtube_utils.py:339 and 403: the loop is through, return None
fetch_exhausted ==
    /\ probe.op = "fetch" /\ probe.pc = "get"
    /\ ~(probe.attempt < probe.max_retries)
    /\ probe' = [probe EXCEPT !.pc = "done", !.result = NoVideo]
    /\ UNCHANGED <<sources, records, tasks, scheduler, scheds>>

\* transcript_exhausted that returns the empty text.
transcript_exhausted_empty ==
    /\ probe.op = "transcript" /\ probe.pc = "ko"
    /\ ~(probe.attempt < probe.max_retries)
    /\ probe' = [probe EXCEPT !.pc = "done", !.result = << >>]
    /\ UNCHANGED <<sources, records, tasks, scheduler, scheds>>

\* youtube_utils.py:409 and 431: the loop is through, return the sentinel that
\* names the exhausted budget
transcript_exhausted ==
    /\ probe.op = "transcript" /\ probe.pc = "ko"
    /\ ~(probe.attempt < probe.max_retries)
    /\ probe' = [probe EXCEPT !.pc = "done",
                              !.result = unavailable("retry budget exhausted")]
    /\ UNCHANGED <<sources, records, tasks, scheduler, scheds>>

InitBudget ==
    /\ sources = << >>
    /\ records = << >>
    /\ tasks = [t \in Slots |-> IdleTask]
    /\ scheduler = 0
    /\ scheds = << >>
    /\ probe \in {FetchStart(max_retries) : max_retries \in 0 .. MaxRetries}
                 \cup {TranscriptStart(max_retries) : max_retries \in 0 .. MaxRetries}

NextBudget ==
    \/ client_get
    \/ asyncio_sleep
    \/ fetch_exhausted
    \/ get_transcript_ko
    \/ get_transcript_auto
    \/ transcript_sleep
    \/ transcript_exhausted

SpecBudget == InitBudget /\ [][NextBudget]_vars

(***************************************************************************)
(* The relative-time parser: parse_upload_date. A phrase is what the       *)
(* parser's searches can find in the text: its first integer, the unit     *)
(* words, a date written year-month-day with the Korean markers, a date    *)
(* written with an English month abbreviation. Instants are minutes since  *)
(* 0001-01-01 00:00, the least datetime.                                   *)
(***************************************************************************)
\* youtube_utils.py:45: datetime.now(), here 2026-01-01 00:00
Now == 1065047040

MinutesPer ==
    [minute |-> 1, hour |-> 60, day |-> 1440, week |-> 10080,
     month |-> 30 * 1440, year |-> 365 * 1440]

Instant(minutes) == [kind |-> "instant", minutes |-> minutes, date |-> << >>]
DateTime(year, month, day) ==
    [kind |-> "date", minutes |-> 0, date |-> <<year, month, day>>]

\* youtube_utils.py:58-69: the unit words the parser looks for in a text, the
\* Korean ones written in Latin letters.
UnitWords ==
    [minute |-> {"bun jeon", "minutes ago"}, hour |-> {"sigan jeon", "hours ago"},
     day |-> {"il jeon", "days ago"}, week |-> {"ju jeon", "weeks ago"},
     month |-> {"gaewol jeon", "months ago"}, year |-> {"nyeon jeon", "years ago"}]

SingularWords ==
    [minute |-> "minute ago", hour |-> "hour ago", day |-> "day ago",
     week |-> "week ago", month |-> "month ago", year |-> "year ago"]

Units == {"minute", "hour", "day", "week", "month", "year"}

Phrase(number, words, date, eng_date) ==
    [number |-> number, words |-> words, date |-> date, eng_date |-> eng_date]

\* datetime(year, month, day) raises ValueError outside these ranges
days_in_month(year, month) ==
    IF month \in {4, 6, 9, 11} THEN 30
    ELSE IF month = 2
         THEN (IF year % 4 = 0 /\ (year % 100 # 0 \/ year % 400 = 0) THEN 29 ELSE 28)
         ELSE 31

valid_date(year, month, day) ==
    /\ year \in 1 .. 9999
    /\ month \in 1 .. 12
    /\ day \in 1 .. days_in_month(year, month)

\* now - timedelta(...) raises OverflowError below the least datetime
subtract(now, minutes) ==
    IF now - minutes >= 0 THEN Instant(now - minutes) ELSE Instant(now)

\* youtube_utils.py:80-84: month_dict.get(month_str, 1)
month_dict(month_str) ==
    CASE month_str = "Jan" -> 1 [] month_str = "Feb" -> 2 [] month_str = "Mar" -> 3
      [] month_str = "Apr" -> 4 [] month_str = "May" -> 5 [] month_str = "Jun" -> 6
      [] month_str = "Jul" -> 7 [] month_str = "Aug" -> 8 [] month_str = "Sep" -> 9
      [] month_str = "Oct" -> 10 [] month_str = "Nov" -> 11 [] month_str = "Dec" -> 12
      [] OTHER -> 1

\* youtube_utils.py:40-91: parse_upload_date
parse_upload_date(phrase, now) ==
    LET has(unit) == phrase.words \cap UnitWords[unit] # {}
    IN  IF phrase.number = << >> THEN Instant(now)
        ELSE LET value == phrase.number[1]
             IN  IF has("minute") THEN subtract(now, value * MinutesPer.minute)
                 ELSE IF has("hour") THEN subtract(now, value * MinutesPer.hour)
                 ELSE IF has("day") THEN subtract(now, value * MinutesPer.day)
                 ELSE IF has("week") THEN subtract(now, value * MinutesPer.week)
                 ELSE IF has("month") THEN subtract(now, value * MinutesPer.month)
                 ELSE IF has("year") THEN subtract(now, value * MinutesPer.year)
                 ELSE IF phrase.date # << >>
                      THEN (IF valid_date(phrase.date[1], phrase.date[2], phrase.date[3])
                            THEN DateTime(phrase.date[1], phrase.date[2], phrase.date[3])
                            ELSE Instant(now))
                 ELSE IF phrase.eng_date # << >>
                      THEN (LET month == month_dict(phrase.eng_date[1])
                                day == phrase.eng_date[2]
                                year == phrase.eng_date[3]
                            IN  IF valid_date(year, month, day)
                                THEN DateTime(year, month, day)
                                ELSE Instant(now))
                 ELSE Instant(now)

\* The phrases parsed: "N <unit> ago" in Korean and in English, English with the
\* singular of the unit for one; texts with a number and no unit; texts without a
\* number; dates, valid and not, in both notations.
Quantities == {1, 3, 7, 45}

RelativePhrases ==
    {Phrase(<<n>>, {w}, << >>, << >>) :
        n \in Quantities, w \in UNION {UnitWords[u] : u \in Units}}
        \cup {Phrase(<<1>>, {SingularWords[u]}, << >>, << >>) : u \in Units}

OtherPhrases ==
    {Phrase(<<n>>, {"foo"}, << >>, << >>) : n \in Quantities}
        \cup {Phrase(<< >>, ws, << >>, << >>) : ws \in {{}, {"days ago"}, {"yesterday"}}}
        \cup {Phrase(<<date[1]>>, {}, date, << >>) :
                 date \in {<<2024, 3, 13>>, <<2024, 13, 1>>, <<2024, 3, 40>>,
                           <<2024, 2, 29>>, <<2023, 2, 29>>}}
        \cup {Phrase(<<date[2]>>, {}, << >>, date) :
                 date \in {<<"Mar", 13, 2024>>, <<"Foo", 13, 2024>>, <<"Feb", 30, 2024>>}}
        \cup {Phrase(<<3>>, {"days ago"}, <<2024, 3, 13>>, << >>)}

InitParse ==
    /\ sources = << >>
    /\ records = << >>
    /\ tasks = [t \in Slots |-> IdleTask]
    /\ scheduler = 0
    /\ scheds = << >>
    /\ probe \in {[op |-> "parse", phrase |-> phrase, result |-> Instant(0)] :
                     phrase \in RelativePhrases \cup OtherPhrases}

apply_parse ==
    /\ probe.op = "parse"
    /\ probe' = [probe EXCEPT !.op = "parsed",
                              !.result = parse_upload_date(probe.phrase, Now)]
    /\ UNCHANGED <<sources, records, tasks, scheduler, scheds>>

NextParse == apply_parse

SpecParse == InitParse /\ [][NextParse]_vars

(***************************************************************************)
(* The page data extractor: extract_initial_data. A page is what each of   *)
(* the three patterns finds in it: nothing, or a span that json.loads      *)
(* parses to an object or rejects.                                         *)
(***************************************************************************)
Span(valid, object) == [valid |-> valid, object |-> object]

\* The empty dictionary
EmptyData == "{}"

Spans ==
    {<<Span(TRUE, object)>> : object \in {"object a", "object b", "object c"}}
        \cup {<<Span(FALSE, "")>>, Absent}

\* A text that the first pattern matches holds a match of the third as well: the
\* third pattern is the first without "var" and without "</script>".
HtmlPages ==
    {page \in [1 .. 3 -> Spans] : page[1] # Absent => page[3] # Absent}

\* youtube_utils.py:16-27: the match of the first pattern that has one
RECURSIVE first_match(_, _)
first_match(page, k) ==
    IF k > 3 THEN Absent
    ELSE IF page[k] # Absent THEN page[k]
         ELSE first_match(page, k + 1)

\* youtube_utils.py:31-32 and 36-38: json.loads of a span; what it raises is
\* caught and the empty dictionary returned
json_loads(span) == IF span.valid THEN span.object ELSE EmptyData

\* extract_initial_data going on to the later patterns when the span of a pattern
\* is not valid JSON.
extract_initial_data_any_valid(html_content) ==
    LET valid == {k \in 1 .. 3 : html_content[k] # Absent /\ html_content[k][1].valid}
    IN  IF valid = {} THEN EmptyData
        ELSE html_content[CHOOSE k \in valid : \A j \in valid : k <= j][1].object

\* youtube_utils.py:12-38: extract_initial_data
extract_initial_data(html_content) ==
    LET match == first_match(html_content, 1)
    IN  IF match # Absent THEN json_loads(match[1]) ELSE EmptyData

InitExtract ==
    /\ sources = << >>
    /\ records = << >>
    /\ tasks = [t \in Slots |-> IdleTask]
    /\ scheduler = 0
    /\ scheds = << >>
    /\ probe \in {[op |-> "extract", html_content |-> page, data |-> EmptyData] :
                     page \in HtmlPages}

apply_extract ==
    /\ probe.op = "extract"
    /\ probe' = [probe EXCEPT !.op = "extracted",
                              !.data = extract_initial_data(probe.html_content)]
    /\ UNCHANGED <<sources, records, tasks, scheduler, scheds>>

NextExtract == apply_extract

SpecExtract == InitExtract /\ [][NextExtract]_vars

(***************************************************************************)
(* The night of the daily reset: the tick of 03:00 and the reset of 04:00,  *)
(* two jobs with ids of their own, the second of which the scheduler starts *)
(* while the first is suspended at a network or store call.                 *)
(***************************************************************************)
\* The reference DB at 03:00: the first page was deactivated in the afternoon, the
\* third, a late one, is still active and due at 03:00.
NightTable ==
    <<TablePage(1, <<FALSE>>), TablePage(2, <<TRUE>>), TablePage(3, <<TRUE>>)>>

\* The wall clock goes from the hour of the late tick to the hour of the reset.
clock_advance ==
    /\ probe.op = "clock"
    /\ probe.hour = hourly_job(3).hour
    /\ probe' = [probe EXCEPT !.hour = reset_job.hour]
    /\ UNCHANGED <<sources, records, tasks, scheduler, scheds>>

InitNight ==
    /\ sources = NightTable
    /\ records = << >>
    /\ tasks = [t \in Slots |-> IdleTask]
    /\ Started
    /\ probe = [op |-> "clock", hour |-> hourly_job(3).hour]

NextNight ==
    \/ \E weekday \in Weekdays :
           /\ cron_fires(hourly_job(3), probe.hour, 0, weekday)
           /\ fire_hourly_job(1, scheduler, hourly_job(3), weekday)
    \/ \E weekday \in Weekdays :
           /\ cron_fires(reset_job, probe.hour, 0, weekday)
           /\ fire_reset_job(scheduler, reset_job)
    \/ clock_advance
    \/ Step(1, process_channel_url_results)

SpecNight == InitNight /\ [][NextNight]_vars

(***************************************************************************)
(* One source between two resets: the ticks of its window, one after the   *)
(* other, with a store whose writes may fail.                              *)
(***************************************************************************)
InitRetry ==
    /\ sources = <<TablePage(1, <<TRUE>>)>>
    /\ records = << >>
    /\ tasks = [t \in Slots |-> IdleTask]
    /\ Started
    /\ probe = NoProbe

NextRetry ==
    \/ \E h \in Hours, weekday \in Weekdays :
           fire_hourly_job(1, scheduler, hourly_job(h), weekday)
    \/ Step(1, process_channel_url_results)

SpecRetry == InitRetry /\ [][NextRetry]_vars

(***************************************************************************)
(* The week: the wall clock goes through the hours of the seven days, each  *)
(* job fires at its hour, and the tick reads the day of the week from the   *)
(* clock when it runs.                                                      *)
(***************************************************************************)
WeekTables == Tables(3)

\* The wall clock reaches the next full hour.
calendar_advance ==
    /\ probe.op = "calendar"
    /\ probe' = [probe EXCEPT !.hour = (probe.hour + 1) % 24,
                              !.weekday = IF probe.hour = 23
                                          THEN (probe.weekday + 1) % 7
                                          ELSE probe.weekday]
    /\ UNCHANGED <<sources, records, tasks, scheduler, scheds>>

\* scheduler.py:274-281 and 182: the hourly job of the clock's hour fires, and
\* the tick takes the day of the week from datetime.now().
calendar_hourly_job ==
    \E h \in Hours :
        /\ cron_fires(hourly_job(h), probe.hour, 0, probe.weekday)
        /\ fire_hourly_job(1, scheduler, hourly_job(h), probe.weekday)

\* scheduler.py:265-271: the reset job fires at its hour.
calendar_reset_job ==
    /\ cron_fires(reset_job, probe.hour, 0, probe.weekday)
    /\ fire_reset_job(scheduler, reset_job)

InitWeek ==
    /\ sources \in WeekTables
    /\ records = << >>
    /\ tasks = [t \in Slots |-> IdleTask]
    /\ Started
    /\ probe = [op |-> "calendar", weekday |-> 0, hour |-> 0]

NextWeek ==
    \/ calendar_hourly_job
    \/ calendar_reset_job
    \/ calendar_advance
    \/ Step(1, OneVideo)

SpecWeek == InitWeek /\ [][NextWeek]_vars

(***************************************************************************)
(* The claims.                                                             *)
(***************************************************************************)
Range(seq) == {seq[k] : k \in 1 .. Len(seq)}

\* The dispatch window as the specification states it.
ClaimedWindow(expected_hour) ==
    IF expected_hour \in 0 .. 11 THEN {9, 10, 11}
    ELSE IF expected_hour \in 12 .. 19
         THEN {expected_hour + 2, expected_hour + 3, expected_hour + 4}
         ELSE {22, 23, 0, 1, 2, 3}

\* The expected hour of a page, 9 when the page has none.
ExpectedHour(page) == IF page.number = Absent THEN 9 ELSE page.number[1]

\* C3: the dispatch window depends on expected_hour alone: {9,10,11} below 12,
\* {h+2,h+3,h+4} from 12 to 19, {22,23,0,1,2,3} from 20 on, every member an hour
\* of the day. The tick's membership test and the simulation's list both compute it.
C3_DispatchWindow ==
    probe.op = "done" =>
        /\ probe.should_process
               <=> probe.target_hour \in ClaimedWindow(probe.upload_time)
        /\ Range(probe.extraction_times) = ClaimedWindow(probe.upload_time)
        /\ Range(probe.extraction_times) \subseteq Hours
        /\ probe.upload_time = 14 => Range(probe.extraction_times) = {16, 17, 18}

C3_Witness ==
    /\ probe.op = "done"
    /\ probe.upload_time = 14
    /\ probe.target_hour = 16
    /\ probe.should_process

\* The due pages of a tick for target hour t, as the specification states them:
\* the pages of the list that are active and whose window holds t, each once, in
\* list order.
DueExactly(due, pages, t) ==
    /\ \A k \in 1 .. Len(pages) :
           (\E j \in 1 .. Len(due) : due[j] = pages[k])
               <=> /\ pages[k].checkbox = <<TRUE>>
                   /\ t \in ClaimedWindow(ExpectedHour(pages[k]))
    /\ \A j \in 1 .. Len(due) : \E k \in 1 .. Len(pages) : due[j] = pages[k]
    /\ \A i, j \in 1 .. Len(due) : i < j => due[i].id < due[j].id

\* C4: on a weekday a tick for target hour t hands to process_channel exactly the
\* pages that are active in the list it read and whose window holds t: the list
\* it starts with is that one, it does not change while the tick runs, the page
\* in process is the one at the tick's index, the index moves one page at a time
\* and the tick is through only past the last page.
C4_TickHandsDuePages ==
    /\ [][\A h \in Hours, weekday \in 0 .. 4 :
              (/\ tasks[1].kind = "idle"
               /\ tasks'[1].kind = "tick"
               /\ fire_hourly_job(1, scheduler, hourly_job(h), weekday))
                  => /\ DueExactly(tasks'[1].due, sources, h)
                     /\ tasks'[1].idx = 1
                     /\ tasks'[1].pc = IF tasks'[1].due = << >> THEN "exit" ELSE "begin"]_vars
    /\ [][\A t \in Slots :
              tasks[t].kind = "tick" /\ tasks'[t].kind = "tick"
                  => /\ tasks'[t].due = tasks[t].due
                     /\ tasks'[t].idx \in {tasks[t].idx, tasks[t].idx + 1}
                     /\ tasks'[t].idx # tasks[t].idx => tasks[t].pc = "ret"]_vars
    /\ [](\A t \in Slots :
              tasks[t].kind = "tick" /\ tasks[t].pc # "weekend"
                  => IF tasks[t].pc = "exit"
                     THEN tasks[t].idx = Len(tasks[t].due) + 1
                     ELSE tasks[t].idx \in 1 .. Len(tasks[t].due))

C4_Witness ==
    /\ tasks[1].kind = "tick"
    /\ tasks[1].pc = "exit"
    /\ Len(tasks[1].due) = 2
    /\ \E k \in 1 .. Len(sources) : ~is_active(sources[k])
    /\ \E k \in 1 .. Len(sources) :
           is_active(sources[k]) /\ sources[k] \notin Range(tasks[1].due)

\* C5: a tick that runs on a Saturday or a Sunday processes no page, whatever the
\* target hour and the list: it reads nothing, writes nothing, and all it does
\* next is return.
C5_WeekendTickDoesNothing ==
    /\ [][\A h \in Hours, weekday \in {5, 6} :
              (/\ tasks[1].kind = "idle"
               /\ tasks'[1].kind = "tick"
               /\ fire_hourly_job(1, scheduler, hourly_job(h), weekday))
                  => /\ tasks'[1].due = << >>
                     /\ ~tasks'[1].touched
                     /\ tasks'[1].pc = "weekend"
                     /\ UNCHANGED <<sources, records>>]_vars
    /\ [][\A t \in Slots :
              tasks[t].kind = "tick" /\ tasks[t].pc = "weekend" /\ tasks'[t] # tasks[t]
                  => tasks'[t] = IdleTask /\ UNCHANGED <<sources, records>>]_vars
    /\ [](\A t \in Slots :
              tasks[t].kind = "tick" /\ tasks[t].pc = "weekend"
                  => tasks[t].due = << >> /\ tasks[t].trace = << >> /\ ~tasks[t].touched)

C5_Witness ==
    /\ tasks[1].kind = "tick"
    /\ tasks[1].pc = "weekend"
    /\ \A k \in 1 .. Len(sources) : is_active(sources[k])

\* The page of the source table that a task's current page snapshot stands for.
StoredPage(task) == sources[CurrentPage(task).id]

InProcessChannel(task) == task.pc \notin {"idle", "exit", "weekend"}

\* C1: with a matching video, a working transcript retriever and a working record
\* store, two runs of process_channel in sequence on the same source create one
\* record: a run whose dedup check finds no record of the video's URL creates the
\* first, a run that finds one goes to the deactivation and creates none, the
\* source is inactive after either, and no URL ever has two records.
C1_SecondRunCreatesNothing ==
    /\ [](\A v \in Videos : CountUrl(records, Candidate(v, FALSE, FALSE).url) <= 1)
    /\ [][\A t \in Slots :
              (tasks[t].pc = "dedup" /\ tasks'[t].pc \notin {"dedup", "ret"})
                  => tasks'[t].pc = IF CountUrl(records, tasks[t].cand.url) = 0
                                    THEN "transcript" ELSE "update_duplicate"]_vars
    /\ [][\A t \in Slots :
              (tasks[t].pc = "create" /\ tasks'[t].pc = "update_created")
                  => /\ CountUrl(records, tasks[t].cand.url) = 0
                     /\ CountUrl(records', tasks[t].cand.url) = 1]_vars
    /\ [][\A t \in Slots :
              (/\ tasks[t].pc \in {"update_duplicate", "update_created"}
               /\ tasks'[t].pc = "ret"
               /\ tasks'[t].result
               /\ tasks'[t].fault = "none")
                  => /\ ~is_active(sources'[CurrentPage(tasks[t]).id])
                     /\ records' = records
                     /\ CountUrl(records, tasks[t].cand.url) = 1]_vars

C1_Witness ==
    /\ tasks[1].pc = "ret"
    /\ tasks[1].outcome = "duplicate"
    /\ tasks[1].fault = "none"
    /\ ~is_active(StoredPage(tasks[1]))
    /\ Len(records) = 1
    /\ records[1].url = tasks[1].cand.url
    /\ records[1].name = channel_name_of(CurrentPage(tasks[1]))

\* C8: process_channel writes to a source only at its deactivation, after the
\* dedup check found a record or after it created one, and writes the active flag
\* to false and nothing else; it returns True on the two paths through the
\* deactivation and False on every other, a write that raises being an exception
\* of the run.
C8_WritesOnlyActiveToFalse ==
    /\ [][\A t \in Slots :
              (tasks'[t] # tasks[t] /\ sources' # sources)
                  => /\ tasks[t].pc \in {"update_duplicate", "update_created"}
                     /\ tasks'[t].pc = "ret"
                     /\ tasks'[t].outcome \in {"duplicate", "created"}
                     /\ sources' = [k \in 1 .. Len(sources) |->
                            IF k = CurrentPage(tasks[t]).id
                            THEN [sources[k] EXCEPT !.checkbox = <<FALSE>>]
                            ELSE sources[k]]]_vars
    /\ [](\A t \in Slots :
              tasks[t].pc = "ret"
                  => /\ tasks[t].result <=> tasks[t].outcome \in {"duplicate", "created"}
                     /\ tasks[t].outcome \in
                            {"inactive", "missing", "not_channel", "not_found",
                             "live_or_upcoming", "no_transcript", "create_failed",
                             "exception", "duplicate", "created"}
                     /\ tasks[t].outcome = "duplicate"
                            => tasks[t].trace = <<"fetch", "dedup", "update">>
                     /\ tasks[t].outcome = "created"
                            => tasks[t].trace
                                   = <<"fetch", "dedup", "transcript", "create", "update">>)

C8_Witness ==
    /\ tasks[1].pc = "ret"
    /\ tasks[1].outcome = "created"
    /\ tasks[1].result
    /\ is_active(CurrentPage(tasks[1]))
    /\ StoredPage(tasks[1]) = TablePage(CurrentPage(tasks[1]).id, <<FALSE>>)

\* A page that process_channel skips: inactive, or without keyword, or without
\* URL, or with a URL that does not hold the channel marker.
Skipped(page) ==
    \/ page.checkbox # <<TRUE>>
    \/ page.title = Absent
    \/ page.url = UrlMissing
    \/ ChannelMarker \notin Range(page.url)

\* C9: on a page that is inactive, or has no keyword, or has no URL, or whose URL
\* lacks the channel marker, process_channel calls neither the fetcher nor the
\* transcript retriever nor the stores, changes nothing, and returns False.
C9_SkippedPageMakesNoCall ==
    /\ [](\A t \in Slots :
              (InProcessChannel(tasks[t]) /\ Skipped(CurrentPage(tasks[t])))
                  => /\ tasks[t].pc \in {"begin", "ret"}
                     /\ tasks[t].trace = << >>
                     /\ tasks[t].pc = "ret"
                            => /\ ~tasks[t].result
                               /\ tasks[t].outcome \in {"inactive", "missing", "not_channel"})
    /\ [][\A t \in Slots :
              (/\ InProcessChannel(tasks[t])
               /\ Skipped(CurrentPage(tasks[t]))
               /\ tasks'[t] # tasks[t])
                  => UNCHANGED <<sources, records>>]_vars

C9_Witness ==
    /\ tasks[1].pc = "ret"
    /\ tasks[1].outcome = "not_channel"
    /\ CurrentPage(tasks[1]).checkbox = <<TRUE>>
    /\ CurrentPage(tasks[1]).title # Absent
    /\ CurrentPage(tasks[1]).url = UrlOther
    /\ ~tasks[1].result

IsPrefix(s, t) ==
    /\ Len(s) <= Len(t)
    /\ \A k \in 1 .. Len(s) : s[k] = t[k]

\* In every run the calls come in this order: the fetch, the dedup check, then
\* either the write of active=false, or the transcript retrieval, the creation
\* of the record and the write.
CallsInOrder ==
    \A t \in Slots :
        \/ IsPrefix(tasks[t].trace, <<"fetch", "dedup", "update">>)
        \/ IsPrefix(tasks[t].trace, <<"fetch", "dedup", "transcript", "create", "update">>)

\* The dedup check that found a record of the candidate's URL goes to the write.
DedupFoundStep ==
    \A t \in Slots :
        (/\ tasks[t].pc = "dedup"
         /\ CountUrl(records, tasks[t].cand.url) >= 1
         /\ tasks'[t].pc \notin {"dedup", "ret"})
            => tasks'[t].pc = "update_duplicate"

\* The write after the dedup check found a record: no record is created, the
\* transcript retriever was not called, and the source is inactive after it, in
\* every case or (whenStoreWorks) when the store applied the write.
DuplicateWriteStep(whenStoreWorks) ==
    \A t \in Slots :
        (tasks[t].pc = "update_duplicate" /\ tasks'[t] # tasks[t])
            => /\ tasks'[t].pc = "ret"
               /\ tasks'[t].trace = <<"fetch", "dedup", "update">>
               /\ records' = records
               /\ (whenStoreWorks
                      => tasks'[t].outcome = "duplicate" /\ tasks'[t].fault = "none")
                   => ~is_active(sources'[CurrentPage(tasks[t]).id])

ResetStep ==
    /\ sources' # sources
    /\ UNCHANGED <<records, tasks, scheduler, scheds, probe>>

AllActive(pages) == \A k \in 1 .. Len(pages) : pages[k].checkbox = <<TRUE>>

ClaimedJobs(jobs) ==
    /\ Cardinality(jobs) = 25
    /\ \A h \in Hours :
           Cardinality({j \in jobs : /\ j.func = "process_channels_by_time"
                                     /\ j.args = <<h>>
                                     /\ j.hour = h
                                     /\ j.minute = 0}) = 1
    /\ Cardinality({j \in jobs : /\ j.func = "reset_channels_daily"
                                 /\ j.hour = 4
                                 /\ j.minute = 0}) = 1

\* C7: after one or more calls of setup_scheduler exactly one scheduler runs, the
\* one of the last call, with 25 jobs: a tick for each hour at minute 0 with the
\* hour as its argument, and the reset at 04:00; the schedulers of the earlier
\* calls are shut down and no job of theirs fires.
C7_OneSchedulerWith25Jobs ==
    /\ [](Len(scheds) >= 1
              => /\ scheduler = Len(scheds)
                 /\ {i \in 1 .. Len(scheds) : scheds[i].running} = {scheduler}
                 /\ ClaimedJobs(LiveJobs(scheduler))
                 /\ \A i \in 1 .. Len(scheds) : i # scheduler => LiveJobs(i) = {})
    /\ [][\A i \in 1 .. Len(scheds) :
              (\/ \E h \in Hours, weekday \in Weekdays :
                      fire_hourly_job(1, i, hourly_job(h), weekday)
               \/ fire_reset_job(i, reset_job))
                  => i = scheduler]_vars

C7_Witness ==
    /\ Len(scheds) = 2
    /\ ~scheds[1].running
    /\ scheds[2].running
    /\ tasks[1].kind = "tick"
    /\ tasks[1].pc = "begin"

\* C2 as stated: the script DB holds at most one record for each video URL, in
\* every interleaving of ticks, resets and simulations that execute.
C2_AtMostOneRecordPerUrl ==
    \A v \in Videos : CountUrl(records, Candidate(v, FALSE, FALSE).url) <= 1

\* The transcript retriever's unavailable sentinel: a text that starts with the
\* prefix process_channel tests for.
IsSentinel(script) == script # << >> /\ script[1] = SentinelPrefix

\* C11: when the transcript retriever returns the unavailable sentinel,
\* process_channel creates no record, writes nothing to the source and returns
\* False; no record of the script DB has the sentinel as its body.
C11_SentinelCreatesNothing ==
    /\ [](\A k \in 1 .. Len(records) : ~IsSentinel(records[k].body))
    /\ [](\A t \in Slots :
              (InProcessChannel(tasks[t]) /\ IsSentinel(tasks[t].script))
                  => /\ tasks[t].pc = "ret"
                     /\ tasks[t].outcome = "no_transcript"
                     /\ ~tasks[t].result
                     /\ tasks[t].trace = <<"fetch", "dedup", "transcript">>)
    /\ [][\A t \in Slots :
              (tasks[t].pc = "transcript" /\ IsSentinel(tasks'[t].script))
                  => UNCHANGED <<sources, records>>]_vars

C11_Witness ==
    /\ tasks[1].pc = "ret"
    /\ IsSentinel(tasks[1].script)
    /\ tasks[1].outcome = "no_transcript"
    /\ is_active(StoredPage(tasks[1]))
    /\ records = << >>

\* The record the specification states for a page and a candidate.
ClaimedRecord(page, cand, script) ==
    [title |-> page.title[1], url |-> cand.url,
     name |-> IF page.select = Absent THEN DefaultChannelName ELSE page.select[1],
     length |-> cand.video_length, status |-> "analysis", body |-> script]

\* C12: a record that process_channel creates has the page's keyword as title
\* (not the video's title), the video's URL, the page's channel name, the status
\* analysis and the retrieved transcript as body; records come from the create
\* call alone; the write of active=false follows a create call that returned a
\* page, and a create call that returned none or raised is followed by no write.
C12_RecordFieldsAndOrder ==
    /\ [][records' # records
              => \E t \in Slots :
                     /\ tasks[t].pc = "create"
                     /\ tasks'[t].pc = "update_created"
                     /\ records' = Append(records,
                            ClaimedRecord(CurrentPage(tasks[t]), tasks[t].cand,
                                          tasks[t].script))
                     /\ records'[Len(records')].title # tasks[t].cand.title
                     /\ script_usable(tasks[t].script)
                     /\ sources' = sources]_vars
    /\ [][\A t \in Slots :
              (tasks[t].pc = "create" /\ tasks'[t] # tasks[t] /\ records' = records)
                  => /\ tasks'[t].pc = "ret"
                     /\ ~tasks'[t].result
                     /\ sources' = sources]_vars
    /\ [](\A t \in Slots :
              tasks[t].pc = "update_created"
                  => /\ tasks[t].trace = <<"fetch", "dedup", "transcript", "create">>
                     /\ \E k \in 1 .. Len(records) :
                            records[k] = ClaimedRecord(CurrentPage(tasks[t]),
                                                       tasks[t].cand, tasks[t].script))

C12_Witness ==
    /\ tasks[1].pc = "ret"
    /\ tasks[1].outcome = "created"
    /\ tasks[1].fault = "none"
    /\ ~is_active(StoredPage(tasks[1]))
    /\ Len(records) = 1
    /\ records[1].title = "X"
    /\ records[1].url = tasks[1].cand.url
    /\ records[1].body = <<"hello", "world">>

\* The outcomes of process_channel that are a failure of the page's processing.
FailedOutcomes == {"not_found", "no_transcript", "create_failed", "exception"}

C14_DueUntilDeactivated ==
    /\ [](\A t \in Slots :
              (/\ tasks[t].kind = "tick"
               /\ InProcessChannel(tasks[t])
               /\ ~(tasks[t].pc = "ret" /\ tasks[t].result))
                  => is_active(StoredPage(tasks[t])))
    /\ [][\A h \in Hours, weekday \in 0 .. 4 :
              (/\ tasks[1].kind = "idle"
               /\ tasks'[1].kind = "tick"
               /\ fire_hourly_job(1, scheduler, hourly_job(h), weekday))
                  => \A k \in 1 .. Len(sources) :
                         sources[k] \in Range(tasks'[1].due)
                             <=> /\ sources[k].checkbox = <<TRUE>>
                                 /\ h \in ClaimedWindow(ExpectedHour(sources[k]))]_vars
    /\ [][(\E k \in 1 .. Len(sources) :
               sources[k].checkbox # <<TRUE>> /\ sources'[k].checkbox = <<TRUE>>)
              => \/ ResetStep
                 \/ \E t \in Slots :
                        /\ tasks[t].kind = "idle"
                        /\ tasks'[t].kind = "sim"
                        /\ tasks'[t].reset
                        /\ tasks'[t].execute]_vars

C14_Witness ==
    /\ tasks[1].kind = "tick"
    /\ tasks[1].pc = "ret"
    /\ tasks[1].outcome = "no_transcript"
    /\ CurrentPage(tasks[1]).number = <<14>>
    /\ is_active(StoredPage(tasks[1]))

\* The three tiers of the final order: live, then neither live nor upcoming, then
\* upcoming and not live.
Tier(video) == IF video.is_live THEN 1 ELSE IF video.is_upcoming THEN 3 ELSE 2

ThreeTier(videos) ==
    SelectSeq(videos, LAMBDA v : Tier(v) = 1)
        \o SelectSeq(videos, LAMBDA v : Tier(v) = 2)
        \o SelectSeq(videos, LAMBDA v : Tier(v) = 3)

\* C19 as stated: the finder's output is the gathered list in three tiers, live
\* first, then the videos neither live nor upcoming, then the upcoming ones, each
\* tier in the order of discovery.
C19_StableThreeTierSort ==
    probe.op = "found" => probe.videos = ThreeTier(probe.merged)

\* The videos of every shape a payload holds: the section lists and rich grids of
\* its tabs and its top-level section list.
RECURSIVE AllShapes(_, _)
AllShapes(tabs, keyword) ==
    IF tabs = << >> THEN {}
    ELSE (IF Head(tabs).section_list # Absent
          THEN Range(matching_videos(Head(tabs).section_list[1], keyword)) ELSE {})
         \cup (IF Head(tabs).rich_grid # Absent
               THEN Range(matching_videos(Head(tabs).rich_grid[1], keyword)) ELSE {})
         \cup AllShapes(Tail(tabs), keyword)

ClaimedCandidates(data, keyword) ==
    (IF data.two_column # Absent THEN AllShapes(data.two_column[1], keyword) ELSE {})
        \cup (IF data.section_list # Absent
              THEN Range(matching_videos(data.section_list[1], keyword)) ELSE {})

\* C20 as stated: the finder's output holds the matching videos of every shape of
\* the payload, the top-level section list among them, whatever the other shapes
\* are.
C20_EveryShapeMerged ==
    probe.op = "found"
        => Range(probe.videos) = ClaimedCandidates(probe.data, probe.keyword)

Failed(response) == response.kind \in FailureKinds

FetchDone == probe.op = "fetch" /\ probe.pc = "done"

AllFailed(gets) == \A i \in 1 .. Len(gets) : Failed(gets[i])

\* The delays 2^0, 2^1, ..., 2^(k-1), in that order.
Delays(k) == [i \in 1 .. k |-> 2 ^ (i - 1)]

\* C15: when the first k attempts fail, k below the retry budget, and attempt k+1
\* extracts a payload, the pipeline goes on to attempt k+1, returns what that
\* attempt yields, and has slept exactly k times, for 1, 2, ..., 2^(k-1) seconds
\* in that order.
C15_BackoffThenResult ==
    probe.op = "fetch" =>
        /\ probe.sleeps = Delays(Len(probe.sleeps))
        /\ (AllFailed(probe.gets) /\ Len(probe.gets) < probe.max_retries)
               => probe.pc # "done"
        /\ (FetchDone /\ probe.gets # << >> /\ ~Failed(probe.gets[Len(probe.gets)]))
               => LET k == Len(probe.gets) - 1
                      page == probe.gets[k + 1]
                  IN  /\ k < probe.max_retries
                      /\ AllFailed(SubSeq(probe.gets, 1, k))
                      /\ probe.sleeps = Delays(k)
                      /\ probe.result
                             = latest_video(find_videos_with_keyword(page.data,
                                                                     probe.keyword))

C15_Witness ==
    /\ FetchDone
    /\ probe.max_retries = 3
    /\ Len(probe.gets) = 3
    /\ Failed(probe.gets[1]) /\ Failed(probe.gets[2]) /\ ~Failed(probe.gets[3])
    /\ probe.sleeps = <<1, 2>>
    /\ probe.result.video_id = "v1"

\* What holds of the GETs and sleeps of the pipeline in every state.
GetsWithinBudget ==
    probe.op = "fetch" =>
        /\ Len(probe.gets) <= probe.max_retries
        /\ Len(probe.sleeps) <= probe.max_retries - 1
        /\ probe.pc = "sleep" => Len(probe.gets) < probe.max_retries
        /\ (FetchDone /\ AllFailed(probe.gets))
               => /\ Len(probe.gets) = probe.max_retries
                  /\ Len(probe.sleeps) = probe.max_retries - 1
                  /\ probe.result = NoVideo
                  /\ ~probe.raised

\* C16: the pipeline returns, after at most max_retries GETs; when every attempt
\* failed it has made exactly max_retries GETs and max_retries - 1 sleeps, none
\* of them after the last attempt, returns not found and raises nothing.
C16_ReturnsWithinBudget == []GetsWithinBudget /\ <>FetchDone

C16_Witness ==
    /\ FetchDone
    /\ probe.max_retries = 3
    /\ Len(probe.gets) = 3
    /\ {probe.gets[i].kind : i \in 1 .. 3} = {"timeout", "http_error", "no_data"}
    /\ probe.sleeps = <<1, 2>>
    /\ probe.result = NoVideo

\* A step in which the pipeline makes a GET and extracts a payload from the page.
PageStep ==
    /\ probe.op = "fetch" /\ probe.pc = "get"
    /\ probe'.gets # probe.gets
    /\ ~Failed(probe'.gets[Len(probe'.gets)])

PageOf(p) == p.gets[Len(p.gets)].data

\* C17: when an attempt extracts a payload and the finder returns no candidate for
\* the keyword, the pipeline returns not found in that same step, whatever is left
\* of the retry budget, and once it has returned no sleep and no GET follow.
C17_NoCandidateNoRetry ==
    /\ [][(PageStep /\ find_videos_with_keyword(PageOf(probe'), probe.keyword) = << >>)
              => /\ probe'.pc = "done"
                 /\ probe'.result = NoVideo
                 /\ probe'.sleeps = probe.sleeps]_vars
    /\ [][FetchDone => probe' = probe]_vars

C17_Witness ==
    /\ FetchDone
    /\ probe.max_retries = 3
    /\ Len(probe.gets) = 1
    /\ ~Failed(probe.gets[1])
    /\ PageOf(probe) = Data(<<(<<RichTab(<<ItemV6>>)>>)>>, Absent)
    /\ find_videos_with_keyword(PageOf(probe), probe.keyword) = << >>
    /\ probe.sleeps = << >>
    /\ probe.result = NoVideo

\* The first video of a list that is neither live nor upcoming, if there is one.
Completed(video) == ~video.is_live /\ ~video.is_upcoming

FirstCompleted(videos) ==
    IF \E i \in 1 .. Len(videos) : Completed(videos[i])
    THEN videos[CHOOSE i \in 1 .. Len(videos) :
                    /\ Completed(videos[i])
                    /\ \A j \in 1 .. i - 1 : ~Completed(videos[j])]
    ELSE NoVideo

\* The matching videos of a page in the order the finder comes upon them.
Discovered(p) == gathered(PageOf(p), p.keyword).videos

\* C18: a candidate the pipeline returns is neither live nor upcoming and is the
\* first such candidate in the order the finder came upon the matching videos;
\* when all matching videos of the page are live or upcoming the pipeline returns
\* not found in that same step, without a sleep.
C18_FirstCompletedCandidate ==
    /\ [](FetchDone /\ probe.result # NoVideo
              => /\ Completed(probe.result)
                 /\ ~Failed(probe.gets[Len(probe.gets)])
                 /\ probe.result = FirstCompleted(Discovered(probe)))
    /\ [][(PageStep /\ Discovered(probe') # << >>
                    /\ \A i \in 1 .. Len(Discovered(probe')) :
                           ~Completed(Discovered(probe')[i]))
              => /\ probe'.pc = "done"
                 /\ probe'.result = NoVideo
                 /\ probe'.sleeps = probe.sleeps]_vars

C18_Witness ==
    /\ FetchDone
    /\ ~Failed(probe.gets[Len(probe.gets)])
    /\ Len(Discovered(probe)) = 4
    /\ Discovered(probe)[1].is_upcoming
    /\ Discovered(probe)[2].is_live
    /\ probe.result = Discovered(probe)[3]
    /\ probe.result.video_id = "v1"

\* A page whose matching videos are all live or upcoming, met with budget left.
C18_WitnessNoneCompleted ==
    /\ FetchDone
    /\ probe.max_retries = 3
    /\ Len(probe.gets) = 1
    /\ ~Failed(probe.gets[1])
    /\ Len(Discovered(probe)) = 2
    /\ \A i \in 1 .. 2 : ~Completed(Discovered(probe)[i])
    /\ probe.result = NoVideo

\* The video items a payload holds under a recognized shape: the section list
\* and the rich grid of each well-formed tab of the two-column layout, and the
\* top-level section list.
RECURSIVE TabItems(_)
TabItems(tabs) ==
    IF tabs = << >> THEN {}
    ELSE (IF Head(tabs).section_list # Absent
          THEN Range(Head(tabs).section_list[1]) ELSE {})
         \cup (IF Head(tabs).rich_grid # Absent
               THEN Range(Head(tabs).rich_grid[1]) ELSE {})
         \cup TabItems(Tail(tabs))

ReachableItems(data) ==
    (IF data.two_column # Absent THEN TabItems(data.two_column[1]) ELSE {})
        \cup (IF data.section_list # Absent THEN Range(data.section_list[1]) ELSE {})

\* The title holds the keyword as a substring when case is ignored. Titles are
\* sequences of words and the keyword is one word.
ContainsIgnoringCase(title, keyword) ==
    \E k \in 1 .. Len(title) :
        {title[k], keyword} \in {{"X"}, {"x"}, {"X", "x"}} \/ title[k] = keyword

\* C21 as stated: every video the finder returns comes from an item whose title
\* holds the keyword when case is ignored, and every item of the payload under a
\* recognized shape whose title holds the keyword is among the videos returned.
C21_MatchesExactlyTheReachable ==
    probe.op = "found" =>
        /\ \A i \in 1 .. Len(probe.videos) :
               \E item \in ReachableItems(probe.data) :
                   /\ item.video_id = probe.videos[i].video_id
                   /\ ContainsIgnoringCase(item.title, probe.keyword)
        /\ \A item \in ReachableItems(probe.data) :
               ContainsIgnoringCase(item.title, probe.keyword)
                   => \E i \in 1 .. Len(probe.videos) :
                          probe.videos[i].video_id = item.video_id

\* The half of C21 that holds: what is returned matches the keyword.
C21_ReturnedTitlesMatch ==
    probe.op = "found" =>
        \A i \in 1 .. Len(probe.videos) :
            \E item \in ReachableItems(probe.data) :
                /\ item.video_id = probe.videos[i].video_id
                /\ ContainsIgnoringCase(item.title, probe.keyword)

TranscriptDone == probe.op = "transcript" /\ probe.pc = "done"

AllFetchesFailed(calls) == \A i \in 1 .. Len(calls) : ~calls[i].ok

\* C22: in each of at most max_retries rounds the retriever fetches with the
\* preferred language first and without a language only after that fetch failed;
\* it returns the text of the first fetch that succeeds; it sleeps 2^attempt
\* seconds after a round in which both fetches failed unless that round was the
\* last; after max_retries such rounds it returns the sentinel with the error of
\* the last fetch.
C22_TwoFetchesPerRound ==
    probe.op = "transcript" =>
        LET calls == probe.calls
            n == Len(calls)
        IN  /\ n <= 2 * probe.max_retries
            /\ \A i \in 1 .. n :
                   /\ calls[i].lang = (IF i % 2 = 1 THEN "ko" ELSE "auto")
                   /\ i > 1 => ~calls[i - 1].ok
            /\ probe.sleeps = Delays(Len(probe.sleeps))
            /\ Len(probe.sleeps) = (IF probe.pc = "sleep" THEN n \div 2 - 1
                                    ELSE IF probe.pc = "done" THEN (n - 1) \div 2
                                    ELSE n \div 2)
            /\ probe.pc = "sleep" => n % 2 = 0 /\ n < 2 * probe.max_retries
            /\ (TranscriptDone /\ calls[n].ok) => probe.result = joined(calls[n].entries)
            /\ (TranscriptDone /\ ~calls[n].ok)
                   => /\ n = 2 * probe.max_retries
                      /\ Len(probe.sleeps) = probe.max_retries - 1
                      /\ probe.result = <<SentinelPrefix, ": " \o calls[n].error>>

C22_Witness ==
    /\ TranscriptDone
    /\ probe.max_retries = 3
    /\ Len(probe.calls) = 6
    /\ AllFetchesFailed(probe.calls)
    /\ probe.calls[5].error = "NoTranscriptFound"
    /\ probe.calls[6].error = "TranscriptsDisabled"
    /\ probe.sleeps = <<1, 2>>
    /\ probe.result = <<SentinelPrefix, ": TranscriptsDisabled">>

\* The text of the second fetch of the second round, after one sleep.
C22_WitnessAutoSucceeds ==
    /\ TranscriptDone
    /\ Len(probe.calls) = 4
    /\ probe.calls[4].ok
    /\ probe.sleeps = <<1>>
    /\ probe.result = <<"hello", "world">>

\* The coroutine of a slot is a simulation in report-only mode.
ReportOnly(task) == task.kind = "sim" /\ ~task.execute

\* C23: the steps of a simulation in report-only mode, from its call to its
\* return, leave the reference DB, the script DB and the scheduler as they are
\* and call neither the fetch pipeline, the duplicate check, the transcript
\* retriever nor a store write, whatever hour, minute and weekday it is given.
C23_ReportOnlyMutatesNothing ==
    [][(tasks'[1] # tasks[1] /\ (ReportOnly(tasks[1]) \/ ReportOnly(tasks'[1])))
           => /\ sources' = sources
              /\ records' = records
              /\ scheds' = scheds /\ scheduler' = scheduler
              /\ tasks'[1].trace = << >>
              /\ tasks'[1].pc \in {"exit", "weekend", "idle"}]_vars

C23_Witness ==
    /\ ReportOnly(tasks[1])
    /\ tasks[1].pc = "exit"
    /\ Len(tasks[1].due) >= 2
    /\ tasks[1].trace = << >>
    /\ \E k \in 1 .. Len(sources) : ~is_active(sources[k])

\* A report-only simulation of 04:00 with an inactive page in the reference DB.
C23_WitnessReset ==
    /\ ReportOnly(tasks[1])
    /\ tasks[1].reset
    /\ \E k \in 1 .. Len(sources) : ~is_active(sources[k])

\* C24: for every hour, every weekday and every reference DB, the sources the
\* simulation reports as extraction tasks are the sources the hourly tick of that
\* hour would process on that weekday; on Saturday and Sunday both are none.
C24_SimulationListsTheTickDueSet ==
    probe.op = "listed" =>
        /\ Range(probe.simulation) = Range(probe.tick)
        /\ probe.weekday \in {5, 6} => probe.simulation = << >> /\ probe.tick = << >>

C24_Witness ==
    /\ probe.op = "listed"
    /\ probe.hour = 2
    /\ probe.weekday = 4
    /\ Len(probe.pages) = 2
    /\ Len(probe.tick) = 1
    /\ probe.simulation = probe.tick
    /\ upload_time_of(probe.tick[1]) = 20

\* C25 as stated: a simulation reports the reset task, and in execute mode runs
\* the reset, at the times at which the reset job of the scheduler fires, and at
\* no other: at 04:00 of each of the seven days of the week.
C25_SimulationResetsWhenTheJobFires ==
    [][(tasks[1].kind = "idle" /\ tasks'[1].kind = "sim")
           => \A hour \in Hours, minute \in Minutes, weekday \in Weekdays,
                 simulate_only \in BOOLEAN :
                  simulate_scheduler_at_time(1, hour, minute, weekday, simulate_only)
                      => /\ tasks'[1].reset
                             <=> cron_fires(reset_job, hour, minute, weekday)
                         /\ cron_fires(reset_job, hour, minute, weekday)
                             <=> (hour = 4 /\ minute = 0)
                         /\ (tasks'[1].reset /\ ~simulate_only)
                             => \E outcome \in reset_outcomes(sources) :
                                    sources' = outcome.pages]_vars

\* The pages of two tables differ at most in the page with this id.
SameButPage(pages, others, page_id) ==
    /\ Len(pages) = Len(others)
    /\ \A k \in 1 .. Len(pages) : pages[k].id # page_id => others[k] = pages[k]

\* C26: the due pages of a tick are processed one after the other. The tick goes
\* to its next due page only from the return of process_channel for the page
\* before; a page's run starts with no call made; and every store write of the
\* tick in between is for the page it is at: the flag of that page, a record
\* with the URL of that page's candidate.
C26_OneDuePageAtATime ==
    /\ [][(tasks[1].kind = "tick" /\ tasks'[1].kind = "tick"
                                  /\ tasks'[1].idx # tasks[1].idx)
              => /\ tasks[1].pc = "ret"
                 /\ tasks[1].outcome # "none"
                 /\ tasks'[1].idx = tasks[1].idx + 1
                 /\ sources' = sources /\ records' = records]_vars
    /\ [](tasks[1].kind = "tick" /\ tasks[1].pc = "begin"
              => /\ tasks[1].trace = << >>
                 /\ tasks[1].cand = NoVideo
                 /\ tasks[1].script = << >>)
    /\ [][(tasks[1].kind = "tick" /\ tasks'[1] # tasks[1]
                                  /\ InProcessChannel(tasks[1]))
              => /\ SameButPage(sources, sources', CurrentPage(tasks[1]).id)
                 /\ records' # records
                        => /\ Len(records') = Len(records) + 1
                           /\ SubSeq(records', 1, Len(records)) = records
                           /\ records'[Len(records')].url = tasks[1].cand.url
                           /\ tasks'[1].idx = tasks[1].idx]_vars

C26_Witness ==
    /\ tasks[1].kind = "tick"
    /\ tasks[1].idx = 2
    /\ tasks[1].pc = "begin"
    /\ Len(tasks[1].due) >= 2
    /\ Len(records) = 1
    /\ ~is_active(sources[tasks[1].due[1].id])
    /\ is_active(sources[tasks[1].due[2].id])

\* A tick leaves its slot only by returning: from the weekend test, or with every
\* due page attempted.
TickEndsOnlyByReturning ==
    \A t \in Slots :
        (tasks[t].kind = "tick" /\ tasks'[t].kind # "tick")
            => /\ tasks'[t] = IdleTask
               /\ tasks[t].pc \in {"exit", "weekend"}
               /\ tasks[t].pc = "exit" => tasks[t].idx = Len(tasks[t].due) + 1

\* A tick that has called the creation of a record goes on from that call itself,
\* to the write of the flag or to its return, whatever else starts meanwhile.
CreateNotAbandoned ==
    \A t \in Slots :
        (tasks[t].kind = "tick" /\ tasks[t].pc = "create" /\ tasks'[t] # tasks[t])
            => /\ tasks'[t].kind = "tick"
               /\ tasks'[t].idx = tasks[t].idx
               /\ tasks'[t].pc \in {"update_created", "ret"}
               /\ tasks'[t].trace = Append(tasks[t].trace, "create")

\* C27: a tick that has started is not ended by a later tick or by the daily
\* reset: it leaves its slot only by returning with every due page attempted, a
\* creation of a record it has called is carried through, and on a fair event
\* loop with calls that return every started tick does return.
C27_StartedTickRunsToItsEnd ==
    /\ [][TickEndsOnlyByReturning]_vars
    /\ [][CreateNotAbandoned]_vars
    /\ \A t \in Slots : (tasks[t].kind = "tick") ~> (tasks[t].kind = "idle")

C27_Witness ==
    /\ tasks[1].kind = "tick"
    /\ tasks[1].pc = "update_created"
    /\ Len(records) = 1
    /\ tasks[2].kind = "tick"
    /\ tasks[2].pc = "begin"

\* C28: a record of the script DB, once created, is neither written again nor
\* removed: every step leaves the records there are as they are and at most adds
\* one at the end, and the status of every record is the one it was created with.
C28_RecordsOnlyGrow ==
    /\ [][/\ IsPrefix(records, records')
          /\ Len(records') <= Len(records) + 1]_vars
    /\ [](\A k \in 1 .. Len(records) : records[k].status = "analysis")

C28_Witness ==
    /\ Len(records) = 2
    /\ \E t \in Slots : tasks[t].outcome \in {"created", "duplicate"} /\ tasks[t].pc = "ret"
    /\ \A k \in 1 .. 2 : records[k].status = "analysis"

\* The unit a phrase of the form "N <unit> ago" names, in either language and in
\* either number.
NamesUnit(phrase, unit) ==
    phrase.words \cap (UnitWords[unit] \cup {SingularWords[unit]}) # {}

\* C29 as stated: the parser returns now for a phrase without an integer, for one
\* with neither a unit nor a date, and for a date that is no calendar date; for a
\* phrase "N <unit> ago" it returns now less N units, a month being 30 days and a
\* year 365.
C29_RelativeOrNow ==
    probe.op = "parsed" =>
        /\ probe.phrase.number = << >> => probe.result = Instant(Now)
        /\ (/\ probe.phrase.words \subseteq {"foo"}
            /\ probe.phrase.date = << >>
            /\ probe.phrase.eng_date = << >>) => probe.result = Instant(Now)
        /\ (/\ probe.phrase.words = {}
            /\ probe.phrase.date # << >>
            /\ ~(/\ probe.phrase.date[2] \in 1 .. 12
                 /\ probe.phrase.date[3] \in 1 .. days_in_month(probe.phrase.date[1],
                                                                probe.phrase.date[2])))
               => probe.result = Instant(Now)
        /\ \A unit \in Units :
               (probe.phrase.number # << >> /\ NamesUnit(probe.phrase, unit))
                   => probe.result
                          = Instant(Now - probe.phrase.number[1] * MinutesPer[unit])

\* The patterns that match a page, by their place in the order of the trials.
Matching(page) == {k \in 1 .. 3 : page[k] # Absent}

\* C30: the extractor uses the first of its three patterns, in their order, that
\* matches, and no other: it returns the object of that pattern's span when the
\* span is valid JSON; it returns the empty result when no pattern matches, and
\* when that span is not valid JSON, whatever the later patterns would capture.
C30_FirstMatchingPatternOnly ==
    probe.op = "extracted" =>
        LET page == probe.html_content
        IN  IF Matching(page) = {} THEN probe.data = EmptyData
            ELSE LET first == CHOOSE k \in Matching(page) :
                                  \A j \in Matching(page) : k <= j
                 IN  probe.data = IF page[first][1].valid
                                  THEN page[first][1].object
                                  ELSE EmptyData

C30_Witness ==
    /\ probe.op = "extracted"
    /\ probe.html_content[1] = Absent
    /\ probe.html_content[2] = <<Span(FALSE, "")>>
    /\ probe.html_content[3] = <<Span(TRUE, "object c")>>
    /\ probe.data = EmptyData

\* The second pattern's object, with a different object under the third.
C30_WitnessSecondPattern ==
    /\ probe.op = "extracted"
    /\ probe.html_content[1] = Absent
    /\ probe.html_content[2] = <<Span(TRUE, "object b")>>
    /\ probe.html_content[3] = <<Span(TRUE, "object c")>>
    /\ probe.data = "object b"

\* The matching videos of the channel page are all live or upcoming.
OnlyLiveOrUpcoming(data) ==
    LET videos == gathered(data, Keyword).videos
    IN  /\ videos # << >>
        /\ \A i \in 1 .. Len(videos) : videos[i].is_live \/ videos[i].is_upcoming

\* C31: on top of the fetch pipeline process_channel never takes its
\* live-or-upcoming return: the pipeline yields no candidate that is live or
\* upcoming, and a channel whose matching videos are all live or upcoming ends in
\* the return for no video found. On either return, with the pipeline or with a
\* stand-in for it, only the fetch was called, no store is written and the page
\* is as active in the table as it was.
C31_LiveBranchNotTaken ==
    /\ [](probe.op = "pipeline"
              => /\ \A r \in channel_results : ~r.is_live /\ ~r.is_upcoming
                 /\ tasks[1].outcome # "live_or_upcoming"
                 /\ (OnlyLiveOrUpcoming(probe.data) /\ tasks[1].pc = "ret"
                                                    /\ tasks[1].trace # << >>)
                        => tasks[1].outcome = "not_found")
    /\ [](tasks[1].outcome \in {"not_found", "live_or_upcoming"}
              => /\ tasks[1].trace = <<"fetch">>
                 /\ ~tasks[1].result)
    /\ [][tasks'[1].outcome \in {"not_found", "live_or_upcoming"}
              /\ tasks[1].outcome = "none"
              => sources' = sources /\ records' = records]_vars

C31_Witness ==
    /\ probe.op = "pipeline"
    /\ OnlyLiveOrUpcoming(probe.data)
    /\ tasks[1].pc = "ret"
    /\ tasks[1].outcome = "not_found"
    /\ tasks[1].trace = <<"fetch">>
    /\ is_active(sources[CurrentPage(tasks[1]).id])

\* The live-or-upcoming return, taken with the stand-in.
C31_WitnessStandIn ==
    /\ probe.op = "stand-in"
    /\ tasks[1].pc = "ret"
    /\ tasks[1].outcome = "live_or_upcoming"
    /\ is_active(sources[CurrentPage(tasks[1]).id])

\* The hours that are in no window.
IdleHours == {4, 5, 6, 7, 8, 12, 13}

\* The place of an hour in the reset cycle: the hours since the last 04:00.
HoursSinceReset(hour) == (hour + 24 - reset_job.hour) % 24

\* C32: the hours 4, 5, 6, 7, 8, 12 and 13 are trigger hours for no expected hour,
\* so the hour of the reset job is none; and the trigger hours of a window, in
\* the order of the window, follow each other hour by hour after one and the same
\* 04:00, the late window 22, 23, 0, 1, 2, 3 ending at the last hour before the
\* next.
C32_NoTriggerAtResetHour ==
    probe.op = "done" =>
        LET times == probe.extraction_times
        IN  /\ probe.target_hour \in IdleHours
                   => /\ ~probe.should_process
                      /\ probe.target_hour \notin Range(times)
            /\ reset_job.hour = 4 /\ reset_job.minute = 0
            /\ reset_job.hour \notin Range(times)
            /\ \A k \in 1 .. Len(times) : HoursSinceReset(times[k]) >= 1
            /\ \A k \in 1 .. Len(times) - 1 :
                   HoursSinceReset(times[k + 1]) = HoursSinceReset(times[k]) + 1
            /\ probe.upload_time >= 20
                   => HoursSinceReset(times[Len(times)]) = 23

C32_Witness ==
    /\ probe.op = "done"
    /\ probe.upload_time = 21
    /\ probe.target_hour = 4
    /\ ~probe.should_process
    /\ probe.extraction_times = <<22, 23, 0, 1, 2, 3>>


\* A tick is waiting for one of the four calls process_channel makes for a source.
AwaitsCall(task) ==
    task.kind = "tick" /\ task.pc \in {"fetch", "dedup", "transcript", "create"}

\* process_channel, run by a tick, returns with a record created or a duplicate
\* detected.
DeactivatingReturnStep(t) ==
    /\ tasks[t].kind = "tick"
    /\ tasks[t].pc \in {"update_duplicate", "update_created"}
    /\ tasks'[t].pc = "ret"
    /\ tasks'[t].outcome \in {"created", "duplicate"}

\* No tick handles a source that is inactive in the store: a tick lists only
\* pages that are active as the store holds them, it waits for a page fetch, a
\* dedup check, a transcript retrieval or a record creation only for a source that
\* is active in the store, and only a reset makes an inactive source active.
InactiveSourceLeftAlone ==
    /\ [](\A t \in Slots :
              AwaitsCall(tasks[t]) => StoredPage(tasks[t]).checkbox = <<TRUE>>)
    /\ [][\A t \in Slots :
              (tasks[t].kind = "idle" /\ tasks'[t].kind = "tick")
                  => \A j \in 1 .. Len(tasks'[t].due) :
                         /\ tasks'[t].due[j] = sources[tasks'[t].due[j].id]
                         /\ tasks'[t].due[j].checkbox = <<TRUE>>]_vars
    /\ [][(\E k \in 1 .. Len(sources) :
               sources[k].checkbox # <<TRUE>> /\ sources'[k].checkbox = <<TRUE>>)
              => \/ ResetStep
                 \/ \E t \in Slots :
                        /\ tasks[t].kind = "idle"
                        /\ tasks'[t].kind = "sim"
                        /\ tasks'[t].reset]_vars

C33_WitnessDeactivated ==
    /\ AwaitsCall(tasks[1])
    /\ Len(tasks[1].due) = 2
    /\ tasks[1].idx = 2
    /\ tasks[1].due[1].id = 1
    /\ tasks[1].due[1].checkbox = <<TRUE>>
    /\ sources[1].checkbox = <<FALSE>>

\* The reset of 04:00 has run and has left every page active: the first page,
\* inactive at 03:00, is active.
ResetHasRun ==
    /\ probe.hour = reset_job.hour
    /\ AllActive(sources)

\* A step of the tick of 03:00 writes active=false to the late page.
LateDeactivationStep ==
    /\ tasks[1].kind = "tick"
    /\ tasks'[1] # tasks[1]
    /\ sources[3].checkbox = <<TRUE>>
    /\ sources'[3].checkbox = <<FALSE>>

\* C34 as stated: the tick that started at 03:00 never writes active=false to a
\* source once the reset of 04:00 has made every source active.
C34_LateDeactivationNeverLandsAfterReset ==
    [][LateDeactivationStep => ~ResetHasRun]_vars

\* The late tick has returned from process_channel with a record created for the
\* late page; the reset has run, the first page is active and the late page is
\* inactive until the reset of the next day.
C34_LandedAfterReset ==
    /\ probe.hour = reset_job.hour
    /\ tasks[1].kind = "tick"
    /\ tasks[1].pc = "ret"
    /\ tasks[1].outcome = "created"
    /\ sources[1].checkbox = <<TRUE>>
    /\ sources[3].checkbox = <<FALSE>>

\* The write of active=false that follows the creation of a record raises or has
\* no effect.
FailedFlagWriteStep(t) ==
    /\ tasks[t].pc = "update_created"
    /\ tasks'[t].pc = "ret"
    /\ (tasks'[t].outcome = "exception" \/ tasks'[t].fault = "update_failed")

\* The run that finds the record: it goes from the dedup check to the write of
\* active=false, makes no call of the transcript retriever or of the creation,
\* and leaves the records as they were; when the store applied the write
\* (whenApplied), or in every case, the source is inactive after it.
SecondAttempt(whenApplied) ==
    \A t \in Slots :
        /\ (/\ tasks[t].pc = "dedup"
            /\ CountUrl(records, tasks[t].cand.url) >= 1
            /\ tasks'[t].pc \notin {"dedup", "ret"})
               => tasks'[t].pc = "update_duplicate" /\ records' = records
        /\ (tasks[t].pc = "update_duplicate" /\ tasks'[t] # tasks[t])
               => /\ tasks'[t].pc = "ret"
                  /\ tasks'[t].trace = <<"fetch", "dedup", "update">>
                  /\ records' = records
                  /\ (whenApplied
                         => tasks'[t].outcome = "duplicate" /\ tasks'[t].fault = "none")
                      => sources'[CurrentPage(tasks[t]).id].checkbox = <<FALSE>>

C35_WitnessFirstRun ==
    /\ tasks[1].kind = "tick"
    /\ tasks[1].pc = "ret"
    /\ tasks[1].outcome = "exception"
    /\ tasks[1].trace = <<"fetch", "dedup", "transcript", "create", "update">>
    /\ CountUrl(records, tasks[1].cand.url) = 1
    /\ sources[1].checkbox = <<TRUE>>

\* The page as the coroutine holds it lets process_channel go on to the fetch.
SnapshotPasses(page) ==
    /\ page.checkbox = <<TRUE>>
    /\ page.url # UrlMissing
    /\ keyword_of(page) # ""
    /\ is_channel_url(page.url)

\* C36: process_channel decides on the page its caller holds, the snapshot of the
\* tick's query, whatever the store holds by then: it goes on to the fetch when
\* the snapshot is active with a keyword and a channel URL and returns otherwise,
\* so a source deactivated in the store after the query is still processed; the
\* dedup check writes no record, and a record is written only by the creation,
\* a later call.
C36_StaleSnapshotIsProcessed ==
    /\ [][\A t \in Slots :
              (tasks[t].pc = "begin" /\ tasks'[t] # tasks[t])
                  => IF SnapshotPasses(CurrentPage(tasks[t]))
                     THEN tasks'[t].pc = "fetch"
                     ELSE tasks'[t].pc = "ret"]_vars
    /\ [][\A t \in Slots :
              (tasks[t].pc = "dedup" /\ tasks'[t] # tasks[t])
                  => /\ records' = records
                     /\ tasks'[t].pc # "create"]_vars
    /\ [][records' # records
              => \E t \in Slots :
                     /\ tasks[t].pc = "create"
                     /\ tasks'[t].trace = <<"fetch", "dedup", "transcript", "create">>]_vars

\* A tick is through the dedup check and the transcript retrieval for a source
\* that another tick has deactivated since the query.
C36_Witness ==
    \E t \in Slots :
        /\ tasks[t].kind = "tick"
        /\ tasks[t].pc = "create"
        /\ CurrentPage(tasks[t]).checkbox = <<TRUE>>
        /\ StoredPage(tasks[t]).checkbox = <<FALSE>>
        /\ \E s \in Slots \ {t} : tasks[s].kind = "tick" /\ tasks[s].outcome = "created"

\* The tick starts process_channel for a source that is inactive in the store by
\* the time it does.
C36_WitnessAtEntry ==
    \E t \in Slots :
        /\ tasks[t].kind = "tick"
        /\ tasks[t].pc = "fetch"
        /\ tasks[t].trace = << >>
        /\ StoredPage(tasks[t]).checkbox = <<FALSE>>

\* The hours of the late-night window before and after midnight.
BeforeMidnight == {22, 23}
AfterMidnight == {0, 1, 2, 3}

\* A tick starts.
TickStarts == tasks[1].kind = "idle" /\ tasks'[1].kind = "tick"

\* The late sources that are active in the store.
ActiveLate ==
    {k \in 1 .. Len(sources) :
        sources[k].checkbox = <<TRUE>> /\ ExpectedHour(sources[k]) >= 20}

\* The tick that starts lists the source.
Attempted(k) == sources[k] \in Range(tasks'[1].due)

\* C37: the tick decides on the weekend by the day of the week of the clock at
\* the time it runs. An active source with an expected hour of 20 or later is
\* attempted by the ticks of 22 and 23 of Monday to Friday and by those of 0, 1, 2
\* and 3 of Monday to Friday, so on Friday at 22 and 23 and on Monday at 0 to 3,
\* and by no tick of a Saturday or a Sunday, so not at 0 to 3 of Saturday and not
\* at 22 and 23 of Sunday; the reset job fires at 04:00 of each of the seven days
\* and runs whatever the day.
C37_WeekendCutsTheLateWindow ==
    /\ [][TickStarts
              => \A k \in ActiveLate :
                     Attempted(k)
                         <=> /\ probe.weekday \in 0 .. 4
                             /\ probe.hour \in BeforeMidnight \cup AfterMidnight]_vars
    /\ [][TickStarts
              => /\ (probe.weekday = 4 /\ probe.hour \in BeforeMidnight)
                        => \A k \in ActiveLate : Attempted(k)
                 /\ (probe.weekday = 5 /\ probe.hour \in AfterMidnight)
                        => tasks'[1].pc = "weekend" /\ tasks'[1].due = << >>
                 /\ (probe.weekday = 6 /\ probe.hour \in BeforeMidnight)
                        => tasks'[1].pc = "weekend" /\ tasks'[1].due = << >>
                 /\ (probe.weekday = 0 /\ probe.hour \in AfterMidnight)
                        => \A k \in ActiveLate : Attempted(k)]_vars
    /\ [](\A weekday \in Weekdays :
              /\ cron_fires(reset_job, 4, 0, weekday)
              /\ (probe.weekday = weekday /\ probe.hour = 4)
                     => ENABLED calendar_reset_job)
    /\ [][ResetStep => probe.hour = 4]_vars

\* The tick of Saturday 01:00 is through without a call: the late source, which
\* the ticks of Friday left active, is active and has no record.
C37_Witness ==
    /\ probe.weekday = 5
    /\ probe.hour = 1
    /\ tasks[1].kind = "tick"
    /\ tasks[1].pc = "weekend"
    /\ sources[3].checkbox = <<TRUE>>
    /\ records = << >>

\* The tick of Monday 02:00 is at work on the late source.
C37_WitnessMonday ==
    /\ probe.weekday = 0
    /\ probe.hour = 2
    /\ tasks[1].kind = "tick"
    /\ tasks[1].pc = "transcript"
    /\ CurrentPage(tasks[1]).id = 3

\* Saturday 04:00, the hour of the reset: every page is active, among them the
\* one whose run created the record.
C37_WitnessSaturdayReset ==
    /\ probe.weekday = 5
    /\ probe.hour = 4
    /\ AllActive(sources)
    /\ Len(records) = 1

\* get_video_transcript has returned the empty text to the coroutine.
EmptyTranscriptStep(t) ==
    /\ tasks[t].pc = "transcript"
    /\ tasks'[t] # tasks[t]
    /\ tasks'[t].script = << >>

\* C38: when the transcript retriever returns the empty text, process_channel
\* returns False as it does for the sentinel, without a call of the creation:
\* the records and the source are as they were and the source is active for the
\* tick of its next trigger hour; the creation is called, and a record written,
\* only with a text that is not empty and does not start with the sentinel's
\* prefix.
C38_EmptyTranscriptCreatesNothing ==
    /\ [][\A t \in Slots :
              EmptyTranscriptStep(t)
                  => /\ tasks'[t].pc = "ret"
                     /\ tasks'[t].outcome = "no_transcript"
                     /\ ~tasks'[t].result
                     /\ tasks'[t].trace = <<"fetch", "dedup", "transcript">>
                     /\ UNCHANGED <<sources, records>>
                     /\ tasks[t].kind = "tick"
                            => sources'[CurrentPage(tasks[t]).id].checkbox = <<TRUE>>]_vars
    /\ [][\A t \in Slots :
              (tasks[t].pc = "transcript" /\ IsSentinel(tasks'[t].script))
                  => /\ tasks'[t].pc = "ret"
                     /\ tasks'[t].outcome = "no_transcript"
                     /\ ~tasks'[t].result]_vars
    /\ [](\A t \in Slots :
              tasks[t].pc \in {"create", "update_created"}
                  => tasks[t].script # << >> /\ ~IsSentinel(tasks[t].script))
    /\ [](\A k \in 1 .. Len(records) :
              records[k].body # << >> /\ ~IsSentinel(records[k].body))

\* The tick has returned from process_channel with False after an empty
\* transcript: the source is active and there is no record.
C38_Witness ==
    /\ tasks[1].kind = "tick"
    /\ tasks[1].pc = "ret"
    /\ tasks[1].outcome = "no_transcript"
    /\ ~tasks[1].result
    /\ tasks[1].script = << >>
    /\ tasks[1].trace = <<"fetch", "dedup", "transcript">>
    /\ StoredPage(tasks[1]).checkbox = <<TRUE>>
    /\ records = << >>

\* The active pages of the table that have no number in the expected-hour field.
ActiveWithoutHour(pages) ==
    {k \in 1 .. Len(pages) :
        pages[k].checkbox = <<TRUE>> /\ pages[k].number = Absent}

\* The page with 9 as its expected hour.
AtNine(page) == [page EXCEPT !.number = <<9>>]

\* C39: an active source without a number in its expected-hour field is listed
\* by the hourly tick and by the simulation at the hours at which the same source
\* with the expected hour 9 is listed: from Monday to Friday at 9, 10 and 11, and
\* at no other hour.
C39_AbsentHourDispatchedAsNine ==
    probe.op = "listed" =>
        \A k \in ActiveWithoutHour(probe.pages) :
            LET page == probe.pages[k]
                due == probe.weekday \in 0 .. 4 /\ probe.hour \in {9, 10, 11}
            IN  /\ page \in Range(probe.tick) <=> due
                /\ page \in Range(probe.simulation) <=> due
                /\ due <=> tick_channels(<<AtNine(page)>>, probe.hour, probe.weekday)
                               = <<AtNine(page)>>
                /\ due <=> simulation_channels(<<AtNine(page)>>, probe.hour, probe.weekday)
                               = <<AtNine(page)>>

\* On a Wednesday at 10 the tick and the simulation list the one page of the
\* table, which has no number.
C39_Witness ==
    /\ probe.op = "listed"
    /\ probe.hour = 10
    /\ probe.weekday = 2
    /\ Len(probe.pages) = 1
    /\ ActiveWithoutHour(probe.pages) = {1}
    /\ probe.tick = probe.pages
    /\ probe.simulation = probe.pages

\* On a Wednesday at 12 neither lists it.
C39_WitnessNoon ==
    /\ probe.op = "listed"
    /\ probe.hour = 12
    /\ probe.weekday = 2
    /\ ActiveWithoutHour(probe.pages) = {1}
    /\ probe.tick = << >>
    /\ probe.simulation = << >>

\* The operation runs with a retry budget of 0.
ZeroBudget == probe.max_retries = 0

\* C40: with a retry budget of 0 process_channel_url makes no request and does
\* not sleep, and returns None, for which process_channel returns not found;
\* get_video_transcript makes no fetch and does not sleep, and returns a text
\* that starts with the sentinel's prefix, which process_channel does not take
\* for a transcript, so that it creates no record. Each returns at its first step.
C40_ZeroBudgetMakesNoCall ==
    /\ [](ZeroBudget /\ probe.op = "fetch"
              => /\ probe.gets = << >>
                 /\ probe.sleeps = << >>
                 /\ probe.pc \in {"get", "done"}
                 /\ probe.pc = "done" => probe.result = NoVideo /\ ~probe.raised)
    /\ [](ZeroBudget /\ probe.op = "transcript"
              => /\ probe.calls = << >>
                 /\ probe.sleeps = << >>
                 /\ probe.pc \in {"ko", "done"}
                 /\ probe.pc = "done"
                        => /\ IsSentinel(probe.result)
                           /\ ~script_usable(probe.result))
    /\ [][ZeroBudget => probe'.pc = "done"]_vars

\* get_video_transcript has returned with the budget 0.
C40_Witness ==
    /\ ZeroBudget
    /\ probe.op = "transcript"
    /\ probe.pc = "done"
    /\ probe.calls = << >>
    /\ probe.result[1] = SentinelPrefix

\* process_channel_url has returned with the budget 0.
C40_WitnessFetch ==
    /\ ZeroBudget
    /\ probe.op = "fetch"
    /\ probe.pc = "done"
    /\ probe.gets = << >>
    /\ probe.result = NoVideo
====
